---- MODULE Spec2Model ----
(***************************************************************************)
(* Ralph backends: the LRS statement query engines (column store and       *)
(* async document store) and the data backends' write paths (column store, *)
(* search cluster, async document store, object store).                    *)
(*                                                                         *)
(* SpecLRS  : a client chaining query_statements calls through the cursor. *)
(* Spec     : one write/put/read call after another on a data backend.     *)
(***************************************************************************)
EXTENDS Integers, Sequences, FiniteSets, TLC

\* Optional values: None is the empty tuple, a present value v is <<v>>.
None == <<>>
Some(v) == <<v>>
The(o) == o[1]

(***************************************************************************)
(* Bounds of the model.                                                    *)
(***************************************************************************)
MaxRows == 3
MaxLimit == 2
MaxEventId == 3
MaxData == 3
MaxChunk == 2
MaxStatementId == 2
MaxS3Data == 2
MaxS3Calls == 2
MaxLDPChunks == 2
MaxLDPCalls == 3
MaxStatusCalls == 3
MaxGetDocs == 3
MaxDocs == 2
MaxRowsBefore == 2
MaxClientCalls == 3

(***************************************************************************)
(* Timestamps are microsecond counts (DateTime64(6)).                      *)
(***************************************************************************)
MicrosPerSecond == 1000000
Times == {0, 1, MicrosPerSecond}
EventIds == 1..MaxEventId
Rows == [t : Times, id : EventIds]

\* how a call ended: not yet, with a value, or with an exception
NoRet == [kind |-> "none", value |-> 0, exc |-> "", carried |-> None]
Returned(n) == [kind |-> "returned", value |-> n, exc |-> "", carried |-> None]
Raised(e, c) == [kind |-> "raised", value |-> 0, exc |-> e, carried |-> c]

VARIABLES
    q_backend,   \* which LRS backend the client queries
    q_table,     \* rows of the event table / documents of the collection
    q_params,    \* the fixed StatementParameters: ascending, limit, since, until
    q_cursor,    \* (search_after, pit_id) fed into the next call
    q_out,       \* concatenation of the statements returned so far
    q_last,      \* the page returned by the last call
    q_calls,     \* number of query_statements calls made
    q_done       \* an empty page has been returned

lrsVars == <<q_backend, q_table, q_params, q_cursor, q_out, q_last, q_calls, q_done>>

VARIABLES
    backend,     \* the data backend instance: clickhouse, es, async_mongo, s3
    pc,          \* position of the running write/put call
    w_in,        \* its arguments: data, chunk_size, ignore_errors, operation_type
    w_pos,       \* number of input records consumed
    w_batch,     \* the batch being accumulated
    w_success,   \* the running success count
    w_flushed,   \* the bulk flushes made so far, in order
    w_persisted, \* number of rows the call has persisted
    w_ret,       \* how the call ended
    coll         \* _ids present in the document-store collection

chunkVars == <<backend, pc, w_in, w_pos, w_batch, w_success, w_flushed, w_persisted, w_ret, coll>>

VARIABLES
    s3_store,    \* bucket content: object key -> None or the object's body
    s3_history,  \* the history journal of the backend
    s3_pc,       \* position of the running write/read call
    s3_in,       \* its arguments
    s3_pos,      \* chunks uploaded / lines read so far
    s3_body,     \* the streaming body a read is iterating
    s3_out,      \* what the read has yielded so far
    s3_ret,      \* how the call ended
    s3_pre,      \* store and history when the call was made
    s3_prev,     \* the previous call, once it has ended
    s3_calls     \* number of calls made

s3Vars == <<s3_store, s3_history, s3_pc, s3_in, s3_pos, s3_body, s3_out, s3_ret,
            s3_pre, s3_prev, s3_calls>>

VARIABLES
    rd_pc,       \* position of the ClickHouseDataBackend.read call
    rd_in,       \* its arguments
    rd_out       \* what the read has yielded

rdVars == <<rd_pc, rd_in, rd_out>>

VARIABLES
    ldp_history, \* the history journal of the LDP backend
    ldp_pc,      \* position of the running list/read/write call
    ldp_in,      \* its arguments
    ldp_body,    \* the chunks of the archive the read is streaming
    ldp_pos,     \* chunks yielded so far
    ldp_out,     \* what the call has yielded so far
    ldp_ret,     \* how the call ended
    ldp_pre,     \* the history when the call was made
    ldp_calls    \* number of calls made

ldpVars == <<ldp_history, ldp_pc, ldp_in, ldp_body, ldp_pos, ldp_out, ldp_ret,
             ldp_pre, ldp_calls>>

VARIABLES
    st_backend,    \* the backend whose status() is called
    st_client,     \* ClickHouseDataBackend._client has been created
    st_configured, \* LDP: service_name and stream_id are set
    st_pc,         \* position of the running status() call
    st_probe,      \* what the probe steps of the call have met
    st_ret,        \* how the call ended
    st_results     \* how the earlier calls ended

stVars == <<st_backend, st_client, st_configured, st_pc, st_probe, st_ret, st_results>>

VARIABLES
    qv_docs,     \* number of documents the collection holds
    qv_pc,       \* position of the get call and of its consumer
    qv_in,       \* the query argument and how it is passed
    qv_received, \* the query the wrapped method was called with
    qv_io,       \* number of requests made to the database
    qv_out,      \* number of documents yielded
    qv_ret       \* how the call ended

qvVars == <<qv_docs, qv_pc, qv_in, qv_received, qv_io, qv_out, qv_ret>>

VARIABLES
    sp_pc,       \* StatementParameters(...) has been called
    sp_in,       \* the agent fields given to the constructor
    sp_ret       \* the instance, or the exception raised

spVars == <<sp_pc, sp_in, sp_ret>>

VARIABLES
    ds_family,   \* the package whose catalog is consulted: xapi or edx
    ds_pc,       \* the dispatcher has been given the record
    ds_record,   \* the incoming record, by selector path
    ds_ret       \* the shape chosen, NoMatch or Ambiguous

dsVars == <<ds_family, ds_pc, ds_record, ds_ret>>

VARIABLES
    td_pc,       \* to_documents: idle, running, done (exhausted) or raised
    td_in,       \* its arguments: data, ignore_errors, operation_type
    td_pos,      \* number of statements consumed from data
    td_out,      \* the tuples yielded so far
    td_warnings  \* number of logger.warning calls

tdVars == <<td_pc, td_in, td_pos, td_out, td_warnings>>

VARIABLES
    q_before     \* concurrent inserts: the rows present before the first call

insVars == <<q_before>>

VARIABLES
    cc_store,    \* two writers, one key: None or Some(caller whose bytes it holds)
    cc_in,       \* per caller: operation_type and ignore_errors
    cc_pc,       \* per caller: idle, put, head or done
    cc_saw,      \* per caller: what the existence check saw
    cc_ret       \* per caller: the outcome of write

ccVars == <<cc_store, cc_in, cc_pc, cc_saw, cc_ret>>
Callers == {1, 2}
CcNoInput == [operation_type |-> "CREATE", ignore_errors |-> FALSE]

VARIABLES
    cl_client,   \* ClickHouseDataBackend._client: None or Some(client.database)
    cl_log       \* the calls made on the backend and the database each ran in

clVars == <<cl_client, cl_log>>

\* the state outside the LRS queries, the write paths and the object store
moreVars == <<rdVars, ldpVars, stVars, qvVars, spVars, dsVars, tdVars, insVars, ccVars, clVars>>

vars == <<lrsVars, chunkVars, s3Vars, moreVars>>

IdleRead ==
    /\ rd_pc = "idle"
    /\ rd_in = [chunk_size |-> None]
    /\ rd_out = <<>>

LDPNoInput == [call |-> "none", query |-> None, target |-> None, new |-> FALSE]

IdleLDP ==
    /\ ldp_history = <<>>
    /\ ldp_pc = "idle"
    /\ ldp_in = LDPNoInput
    /\ ldp_body = <<>>
    /\ ldp_pos = 0
    /\ ldp_out = <<>>
    /\ ldp_ret = [kind |-> "none", value |-> 0, exc |-> "", carried |-> None]
    /\ ldp_pre = <<>>
    /\ ldp_calls = 0

StNoRet == [kind |-> "none", value |-> "", exc |-> ""]

IdleStatus ==
    /\ st_backend = "none"
    /\ st_client = FALSE
    /\ st_configured = TRUE
    /\ st_pc = "idle"
    /\ st_probe = <<>>
    /\ st_ret = StNoRet
    /\ st_results = <<>>

QvNoInput == [query |-> "None", passed |-> "omitted", chunk_size |-> 0]

IdleGet ==
    /\ qv_docs = 0
    /\ qv_pc = "idle"
    /\ qv_in = QvNoInput
    /\ qv_received = None
    /\ qv_io = 0
    /\ qv_out = 0
    /\ qv_ret = StNoRet

SpNoInput ==
    [agent__mbox |-> None, agent__mbox_sha1sum |-> None, agent__openid |-> None,
     agent__account__name |-> None, agent__account__homePage |-> None]

IdleParams ==
    /\ sp_pc = "idle"
    /\ sp_in = SpNoInput
    /\ sp_ret = StNoRet

DsNoRecord ==
    [verb__id |-> None, object__definition__type |-> None,
     event_source |-> None, event_type |-> None]

IdleDispatch ==
    /\ ds_family = "xapi"
    /\ ds_pc = "idle"
    /\ ds_record = DsNoRecord
    /\ ds_ret = None

TdNoInput == [data |-> <<>>, ignore_errors |-> FALSE, operation_type |-> "CREATE"]

IdleDocs ==
    /\ td_pc = "idle"
    /\ td_in = TdNoInput
    /\ td_pos = 0
    /\ td_out = <<>>
    /\ td_warnings = 0

IdleInsert ==
    q_before = {}

IdleCreate ==
    /\ cc_store = None
    /\ cc_in = [c \in Callers |-> CcNoInput]
    /\ cc_pc = [c \in Callers |-> "idle"]
    /\ cc_saw = [c \in Callers |-> "none"]
    /\ cc_ret = [c \in Callers |-> NoRet]

IdleClient ==
    /\ cl_client = None
    /\ cl_log = <<>>

IdleMore == IdleRead /\ IdleLDP /\ IdleStatus /\ IdleGet /\ IdleParams /\ IdleDispatch /\ IdleDocs /\ IdleInsert /\ IdleCreate /\ IdleClient

(***************************************************************************)
(* datetime.isoformat(): the fraction is printed only when microsecond is  *)
(* not zero; the driver parses the string back as DateTime64(6).           *)
(***************************************************************************)
isoformat(t) ==
    [sec  |-> t \div MicrosPerSecond,
     frac |-> IF t % MicrosPerSecond = 0 THEN <<>> ELSE <<t % MicrosPerSecond>>]

DateTime64(s) ==
    s.sec * MicrosPerSecond + (IF s.frac = <<>> THEN 0 ELSE s.frac[1])

\* str(uuid) and the driver's UUID parameter binding
UuidStr(id) == <<"uuid", id>>
UUID(s) == s[2]

(***************************************************************************)
(* Ordering helpers.                                                       *)
(***************************************************************************)
\* (emission_time, event_id) strictly before, in the ascending sense
KeyLess(a, b) == a.t < b.t \/ (a.t = b.t /\ a.id < b.id)

RECURSIVE SortAsc(_)
SortAsc(S) ==
    IF S = {} THEN <<>>
    ELSE LET m == CHOOSE x \in S : \A y \in S \ {x} : KeyLess(x, y)
         IN <<m>> \o SortAsc(S \ {m})

Reverse(s) == [i \in 1..Len(s) |-> s[Len(s) + 1 - i]]

\* ORDER BY emission_time, event_id: the direction left out
OrderByAscending(S, ascending) == SortAsc(S)

\* ORDER BY emission_time <dir>, event_id <dir>
OrderBy(S, ascending) == IF ascending THEN SortAsc(S) ELSE Reverse(SortAsc(S))

\* LIMIT n (no LIMIT clause when limit is None or 0)
Limit(s, limit) ==
    IF limit = None THEN s
    ELSE IF The(limit) = 0 \/ Len(s) <= The(limit) THEN s
    ELSE SubSeq(s, 1, The(limit))

IsPrefix(s, t) == Len(s) <= Len(t) /\ s = SubSeq(t, 1, Len(s))

(***************************************************************************)
(* ClickHouseLRSBackend.query_statements                                   *)
(***************************************************************************)
\* the where clauses built from the fixed parameters
CHWhereParams(r, p) ==
    /\ (p.since # None => r.t > The(p.since))
    /\ (p.until # None => r.t <= The(p.until))

\* the search_after clause: tie-break on event_id
CHWhereCursorBroken(r, p, c) ==
    c.search_after # None =>
        IF p.ascending THEN r.t > DateTime64(The(c.search_after))
        ELSE r.t < DateTime64(The(c.search_after))

CHWhereCursor(r, p, c) ==
    c.search_after # None =>
        LET sa == DateTime64(The(c.search_after))
            pit == UUID(The(c.pit_id))
        IN IF p.ascending
           THEN r.t > sa \/ (r.t = sa /\ r.id > pit)
           ELSE r.t < sa \/ (r.t = sa /\ r.id < pit)

CHFind(table, p, c) ==
    Limit(OrderBy({r \in table : CHWhereParams(r, p) /\ CHWhereCursor(r, p, c)},
                  p.ascending),
          p.limit)

\* the cursor taken from the first returned row instead of the last
CHNewCursorFirst(response) ==
    IF response = <<>>
    THEN [search_after |-> None, pit_id |-> None]
    ELSE [search_after |-> Some(isoformat(response[1].t)),
          pit_id       |-> Some(UuidStr(response[1].id))]

CHNewCursor(response) ==
    IF response = <<>>
    THEN [search_after |-> None, pit_id |-> None]
    ELSE [search_after |-> Some(isoformat(response[Len(response)].t)),
          pit_id       |-> Some(UuidStr(response[Len(response)].id))]

CH_query_statements ==
    /\ q_backend = "clickhouse"
    /\ ~q_done
    /\ LET response == CHFind(q_table, q_params, q_cursor)
       IN /\ q_last' = response
          /\ q_out' = q_out \o response
          /\ q_cursor' = CHNewCursor(response)
          /\ q_done' = (response = <<>>)
    /\ q_calls' = q_calls + 1
    /\ UNCHANGED <<q_backend, q_table, q_params>>
    /\ UNCHANGED <<chunkVars, s3Vars, moreVars>>

(***************************************************************************)
(* AsyncMongoDatabase.query_statements                                     *)
(***************************************************************************)
\* to_documents derives the ObjectId from the timestamp's seconds and a
\* digest of the statement id; ObjectIds compare bytewise.
ObjectId(r) == <<r.t \div MicrosPerSecond, r.id>>

OidLess(a, b) == a[1] < b[1] \/ (a[1] = b[1] /\ a[2] < b[2])

\* sort=[("_source.timestamp", dir), ("_id", dir)]
MongoKeyLess(a, b) == a.t < b.t \/ (a.t = b.t /\ OidLess(ObjectId(a), ObjectId(b)))

RECURSIVE MongoSortAsc(_)
MongoSortAsc(S) ==
    IF S = {} THEN <<>>
    ELSE LET m == CHOOSE x \in S : \A y \in S \ {x} : MongoKeyLess(x, y)
         IN <<m>> \o MongoSortAsc(S \ {m})

MongoOrderBy(S, ascending) ==
    IF ascending THEN MongoSortAsc(S) ELSE Reverse(MongoSortAsc(S))

\* each update() on "_source.timestamp" replaces the previous entry
MongoFilterParams(r, p) ==
    IF p.until # None THEN r.t <= The(p.until)
    ELSE IF p.since # None THEN r.t > The(p.since)
    ELSE TRUE

MongoFilterCursor(r, p, c) ==
    c.search_after # None =>
        IF p.ascending THEN OidLess(The(c.search_after), ObjectId(r))
        ELSE OidLess(ObjectId(r), The(c.search_after))

MongoFind(collection, p, c) ==
    Limit(MongoOrderBy({r \in collection : MongoFilterParams(r, p) /\ MongoFilterCursor(r, p, c)},
                       p.ascending),
          p.limit)

MongoNewCursor(response) ==
    IF response = <<>>
    THEN [search_after |-> None, pit_id |-> None]
    ELSE [search_after |-> Some(ObjectId(response[Len(response)])), pit_id |-> None]

Mongo_query_statements ==
    /\ q_backend = "async_mongo"
    /\ ~q_done
    /\ LET response == MongoFind(q_table, q_params, q_cursor)
       IN /\ q_last' = response
          /\ q_out' = q_out \o response
          /\ q_cursor' = MongoNewCursor(response)
          /\ q_done' = (response = <<>>)
    /\ q_calls' = q_calls + 1
    /\ UNCHANGED <<q_backend, q_table, q_params>>
    /\ UNCHANGED <<chunkVars, s3Vars, moreVars>>

(***************************************************************************)
(* The write paths.  Input records are dictionaries; `valid` says whether  *)
(* the statement has the id / timestamp fields to_documents requires.      *)
(***************************************************************************)
StatementIds == 1..MaxStatementId
Statements == [id : StatementIds, valid : BOOLEAN]

RECURSIVE SeqsUpTo(_, _)
SeqsUpTo(S, n) ==
    IF n = 0 THEN {<<>>}
    ELSE LET shorter == SeqsUpTo(S, n - 1)
         IN shorter \cup {Append(s, x) : s \in {t \in shorter : Len(t) = n - 1}, x \in S}

DataInputs == SeqsUpTo(Statements, MaxData)

OperationTypes == {"APPEND", "CREATE", "DELETE", "INDEX", "UPDATE"}

default_chunk_size == 500
ChunkSizes == {None} \cup {Some(n) : n \in 1..MaxChunk}

WriteInputs ==
    [data : DataInputs, chunk_size : ChunkSizes, ignore_errors : BOOLEAN,
     operation_type : {None} \cup {Some(o) : o \in OperationTypes}]

NoInput == [data |-> <<>>, chunk_size |-> None, ignore_errors |-> FALSE,
            operation_type |-> None]

IdleChunker ==
    /\ backend = "none"
    /\ pc = "idle"
    /\ w_in = NoInput
    /\ w_pos = 0
    /\ w_batch = <<>>
    /\ w_success = 0
    /\ w_flushed = <<>>
    /\ w_persisted = 0
    /\ w_ret = NoRet
    /\ coll = {}

\* chunk_size = chunk_size if chunk_size else default_chunk_size
EffectiveChunk(in) ==
    IF in.chunk_size = None THEN default_chunk_size ELSE The(in.chunk_size)

Range(s) == {s[i] : i \in 1..Len(s)}

\* what the store may do with one bulk request of n rows: accept it, or
\* reject it with its bulk / driver error after k rows have been written
BulkOutcomes(n) ==
    {[kind |-> "ok", n |-> n]} \cup {[kind |-> "error", n |-> k] : k \in 0..n}

Flush(batch, r) ==
    [batch |-> batch, failed |-> r.failed, ret |-> r.ret, inserted |-> r.inserted]

(***************************************************************************)
(* ClickHouseDataBackend.bulk_import                                       *)
(***************************************************************************)
CH_bulk_import_overcount(batch, ignore_errors, outcome) ==
    LET dup == Cardinality(Range(batch)) # Len(batch)
        failed == dup \/ outcome.kind # "ok"
    IN [failed   |-> failed,
        inserted |-> IF dup THEN 0 ELSE outcome.n,
        raised   |-> failed /\ ~ignore_errors,
        exc      |-> "BackendException",
        carried  |-> None,
        ret      |-> Len(batch)]

CH_bulk_import_nodupcheck(batch, ignore_errors, outcome) ==
    LET failed == outcome.kind # "ok"
    IN [failed   |-> failed,
        inserted |-> outcome.n,
        raised   |-> failed /\ ~ignore_errors,
        exc      |-> "BackendException",
        carried  |-> None,
        ret      |-> IF failed THEN 0 ELSE Len(batch)]

CH_bulk_import(batch, ignore_errors, outcome) ==
    LET dup == Cardinality(Range(batch)) # Len(batch)
        failed == dup \/ outcome.kind # "ok"
    IN [failed   |-> failed,
        inserted |-> IF dup THEN 0 ELSE outcome.n,
        raised   |-> failed /\ ~ignore_errors,
        exc      |-> "BackendException",
        carried  |-> None,
        ret      |-> IF failed THEN 0 ELSE Len(batch)]

\* a ClickHouseError does not tell how many rows of the batch were written
CHOutcomes(n) == BulkOutcomes(n)

(***************************************************************************)
(* ClickHouseDataBackend.write                                             *)
(***************************************************************************)
CH_write_begin ==
    /\ backend = "clickhouse"
    /\ pc = "idle"
    /\ \E in \in WriteInputs :
        /\ w_in' = in
        /\ LET op == IF in.operation_type = None THEN "CREATE"
                     ELSE The(in.operation_type)
           IN IF in.data = <<>>
              THEN pc' = "done" /\ w_ret' = Returned(0)
              ELSE IF op # "CREATE"
              THEN pc' = "done" /\ w_ret' = Raised("BackendParameterException", None)
              ELSE pc' = "loop" /\ w_ret' = w_ret
    /\ UNCHANGED <<backend, w_pos, w_batch, w_success, w_flushed, w_persisted, coll>>
    /\ UNCHANGED <<lrsVars, s3Vars, moreVars>>

\* one turn of the loop over to_documents(data)
CH_write_document ==
    /\ backend = "clickhouse"
    /\ pc = "loop"
    /\ w_pos < Len(w_in.data)
    /\ w_pos' = w_pos + 1
    /\ LET statement == w_in.data[w_pos + 1]
           batch == Append(w_batch, statement.id)
       IN IF ~statement.valid
          THEN /\ IF w_in.ignore_errors
                  THEN pc' = pc /\ w_ret' = w_ret
                  ELSE pc' = "done" /\ w_ret' = Raised("BadFormatException", None)
               /\ UNCHANGED <<w_batch, w_success, w_flushed, w_persisted>>
          ELSE IF Len(batch) < EffectiveChunk(w_in)
          THEN /\ w_batch' = batch
               /\ UNCHANGED <<pc, w_ret, w_success, w_flushed, w_persisted>>
          ELSE \E outcome \in CHOutcomes(Len(batch)) :
                 LET r == CH_bulk_import(batch, w_in.ignore_errors, outcome)
                 IN /\ w_flushed' = Append(w_flushed, Flush(batch, r))
                    /\ w_persisted' = w_persisted + r.inserted
                    /\ IF r.raised
                       THEN /\ pc' = "done"
                            /\ w_ret' = Raised(r.exc, r.carried)
                            /\ UNCHANGED <<w_batch, w_success>>
                       ELSE /\ w_success' = w_success + r.ret
                            /\ w_batch' = <<>>
                            /\ UNCHANGED <<pc, w_ret>>
    /\ UNCHANGED <<backend, w_in, coll>>
    /\ UNCHANGED <<lrsVars, s3Vars, moreVars>>

\* the last batch flushed without the test on its length
CH_write_finish_flushes_empty ==
    /\ backend = "clickhouse"
    /\ pc = "loop"
    /\ w_pos = Len(w_in.data)
    /\ \E outcome \in CHOutcomes(Len(w_batch)) :
          LET r == CH_bulk_import(w_batch, w_in.ignore_errors, outcome)
          IN /\ w_flushed' = Append(w_flushed, Flush(w_batch, r))
             /\ w_persisted' = w_persisted + r.inserted
             /\ IF r.raised
                THEN /\ w_ret' = Raised(r.exc, r.carried)
                     /\ UNCHANGED <<w_batch, w_success>>
                ELSE /\ w_success' = w_success + r.ret
                     /\ w_ret' = Returned(w_success + r.ret)
                     /\ UNCHANGED w_batch
    /\ pc' = "done"
    /\ UNCHANGED <<backend, w_in, w_pos, coll>>
    /\ UNCHANGED <<lrsVars, s3Vars, moreVars>>

\* the loop is over: flush the last partial batch and return
CH_write_finish ==
    /\ backend = "clickhouse"
    /\ pc = "loop"
    /\ w_pos = Len(w_in.data)
    /\ IF Len(w_batch) > 0
       THEN \E outcome \in CHOutcomes(Len(w_batch)) :
              LET r == CH_bulk_import(w_batch, w_in.ignore_errors, outcome)
              IN /\ w_flushed' = Append(w_flushed, Flush(w_batch, r))
                 /\ w_persisted' = w_persisted + r.inserted
                 /\ IF r.raised
                    THEN /\ w_ret' = Raised(r.exc, r.carried)
                         /\ UNCHANGED <<w_batch, w_success>>
                    ELSE /\ w_success' = w_success + r.ret
                         /\ w_ret' = Returned(w_success + r.ret)
                         /\ UNCHANGED w_batch
       ELSE /\ w_ret' = Returned(w_success)
            /\ UNCHANGED <<w_batch, w_success, w_flushed, w_persisted>>
    /\ pc' = "done"
    /\ UNCHANGED <<backend, w_in, w_pos, coll>>
    /\ UNCHANGED <<lrsVars, s3Vars, moreVars>>

(***************************************************************************)
(* AsyncMongoDatabase.bulk_import: insert_many is ordered and the          *)
(* collection has a unique _id, so the request stops at the first          *)
(* duplicate; a BulkWriteError reports the documents inserted before it.   *)
(***************************************************************************)
\* index of the first document the collection must reject, 0 if none
FirstDuplicate(batch, c) ==
    LET bad == {i \in 1..Len(batch) :
                    batch[i] \in c \/ \E j \in 1..(i - 1) : batch[j] = batch[i]}
    IN IF bad = {} THEN 0 ELSE CHOOSE i \in bad : \A j \in bad : i <= j

Min(a, b) == IF a <= b THEN a ELSE b

Mongo_bulk_import_zero(batch, ignore_errors, outcome, c) ==
    LET d == FirstDuplicate(batch, c)
        stop == IF d = 0 THEN Len(batch) ELSE d - 1
        nInserted == Min(outcome.n, stop)
        bulkError == outcome.kind = "error" \/ d # 0
    IN [failed   |-> bulkError,
        inserted |-> nInserted,
        raised   |-> bulkError /\ ~ignore_errors,
        exc      |-> "BackendException",
        carried  |-> Some(nInserted),
        ret      |-> IF bulkError THEN 0 ELSE nInserted]

Mongo_bulk_import(batch, ignore_errors, outcome, c) ==
    LET d == FirstDuplicate(batch, c)
        stop == IF d = 0 THEN Len(batch) ELSE d - 1
        nInserted == Min(outcome.n, stop)
        bulkError == outcome.kind = "error" \/ d # 0
    IN [failed   |-> bulkError,
        inserted |-> nInserted,
        raised   |-> bulkError /\ ~ignore_errors,
        exc      |-> "BackendException",
        carried  |-> Some(nInserted),
        ret      |-> nInserted]

\* a write error leaves at least the failing document out
MongoOutcomes(n) == {o \in BulkOutcomes(n) : o.kind = "ok" \/ o.n < n}

(***************************************************************************)
(* AsyncMongoDatabase.put                                                  *)
(***************************************************************************)
PutInputs == {in \in WriteInputs : in.operation_type = None}

Mongo_put_begin ==
    /\ backend = "async_mongo"
    /\ pc = "idle"
    /\ \E in \in PutInputs : w_in' = in
    /\ pc' = "loop"
    /\ UNCHANGED <<backend, w_pos, w_batch, w_success, w_flushed, w_persisted, w_ret, coll>>
    /\ UNCHANGED <<lrsVars, s3Vars, moreVars>>

Mongo_put_document ==
    /\ backend = "async_mongo"
    /\ pc = "loop"
    /\ w_pos < Len(w_in.data)
    /\ w_pos' = w_pos + 1
    /\ LET statement == w_in.data[w_pos + 1]
           batch == Append(w_batch, statement.id)
       IN IF ~statement.valid
          THEN /\ IF w_in.ignore_errors
                  THEN pc' = pc /\ w_ret' = w_ret
                  ELSE pc' = "done" /\ w_ret' = Raised("BadFormatException", None)
               /\ UNCHANGED <<w_batch, w_success, w_flushed, w_persisted, coll>>
          ELSE IF Len(batch) < EffectiveChunk(w_in)
          THEN /\ w_batch' = batch
               /\ UNCHANGED <<pc, w_ret, w_success, w_flushed, w_persisted, coll>>
          ELSE \E outcome \in MongoOutcomes(Len(batch)) :
                 LET r == Mongo_bulk_import(batch, w_in.ignore_errors, outcome, coll)
                 IN /\ w_flushed' = Append(w_flushed, Flush(batch, r))
                    /\ w_persisted' = w_persisted + r.inserted
                    /\ coll' = coll \cup Range(SubSeq(batch, 1, r.inserted))
                    /\ IF r.raised
                       THEN /\ pc' = "done"
                            /\ w_ret' = Raised(r.exc, r.carried)
                            /\ UNCHANGED <<w_batch, w_success>>
                       ELSE /\ w_success' = w_success + r.ret
                            /\ w_batch' = <<>>
                            /\ UNCHANGED <<pc, w_ret>>
    /\ UNCHANGED <<backend, w_in>>
    /\ UNCHANGED <<lrsVars, s3Vars, moreVars>>

Mongo_put_finish ==
    /\ backend = "async_mongo"
    /\ pc = "loop"
    /\ w_pos = Len(w_in.data)
    /\ IF Len(w_batch) > 0
       THEN \E outcome \in MongoOutcomes(Len(w_batch)) :
              LET r == Mongo_bulk_import(w_batch, w_in.ignore_errors, outcome, coll)
              IN /\ w_flushed' = Append(w_flushed, Flush(w_batch, r))
                 /\ w_persisted' = w_persisted + r.inserted
                 /\ coll' = coll \cup Range(SubSeq(w_batch, 1, r.inserted))
                 /\ IF r.raised
                    THEN /\ w_ret' = Raised(r.exc, r.carried)
                         /\ UNCHANGED <<w_batch, w_success>>
                    ELSE /\ w_success' = w_success + r.ret
                         /\ w_ret' = Returned(w_success + r.ret)
                         /\ UNCHANGED w_batch
       ELSE /\ w_ret' = Returned(w_success)
            /\ UNCHANGED <<w_batch, w_success, w_flushed, w_persisted, coll>>
    /\ pc' = "done"
    /\ UNCHANGED <<backend, w_in, w_pos>>
    /\ UNCHANGED <<lrsVars, s3Vars, moreVars>>

(***************************************************************************)
(* ESDataBackend.write.  streaming_bulk sends chunk_size actions per bulk  *)
(* request and yields one (ok, item) per action; when raise_on_error is    *)
(* set it raises BulkIndexError at the end of a request that had a failed  *)
(* item, after yielding the items that succeeded.                          *)
(***************************************************************************)
ES_default_operation_type == "INDEX"

ES_write_begin ==
    /\ backend = "es"
    /\ pc = "idle"
    /\ \E in \in {i \in WriteInputs : i.chunk_size # None} :
        /\ w_in' = in
        /\ LET op == IF in.operation_type = None THEN ES_default_operation_type
                     ELSE The(in.operation_type)
           IN IF in.data = <<>>
              THEN pc' = "done" /\ w_ret' = Returned(0)
              ELSE IF op = "APPEND"
              THEN pc' = "done" /\ w_ret' = Raised("BackendParameterException", None)
              ELSE pc' = "loop" /\ w_ret' = w_ret
    /\ UNCHANGED <<backend, w_pos, w_batch, w_success, w_flushed, w_persisted, coll>>
    /\ UNCHANGED <<lrsVars, s3Vars, moreVars>>

\* a bulk request with a failed item has at least that item not indexed
ESOutcomes(n) == {o \in BulkOutcomes(n) : o.kind = "ok" \/ o.n < n}

\* one bulk request of streaming_bulk and the count += success turns on it
ES_write_chunk ==
    /\ backend = "es"
    /\ pc = "loop"
    /\ w_pos < Len(w_in.data)
    /\ LET n == Min(EffectiveChunk(w_in), Len(w_in.data) - w_pos)
           batch == [i \in 1..n |-> w_in.data[w_pos + i].id]
       IN \E outcome \in ESOutcomes(n) :
            LET failed == outcome.kind # "ok"
                count == w_success + outcome.n
            IN /\ w_pos' = w_pos + n
               /\ w_flushed' = Append(w_flushed,
                      [batch |-> batch, failed |-> failed, ret |-> outcome.n,
                       inserted |-> outcome.n])
               /\ w_persisted' = w_persisted + outcome.n
               /\ w_success' = count
               /\ IF failed /\ ~w_in.ignore_errors
                  THEN pc' = "done" /\ w_ret' = Raised("BackendException", Some(count))
                  ELSE UNCHANGED <<pc, w_ret>>
    /\ UNCHANGED <<backend, w_in, w_batch, coll>>
    /\ UNCHANGED <<lrsVars, s3Vars, moreVars>>

ES_write_finish ==
    /\ backend = "es"
    /\ pc = "loop"
    /\ w_pos = Len(w_in.data)
    /\ pc' = "done"
    /\ w_ret' = Returned(w_success)
    /\ UNCHANGED <<backend, w_in, w_pos, w_batch, w_success, w_flushed, w_persisted, coll>>
    /\ UNCHANGED <<lrsVars, s3Vars, moreVars>>

(***************************************************************************)
(* S3DataBackend.  An object body is the bytes put_object stored; records  *)
(* are dictionaries or byte strings, and a byte string may or may not be   *)
(* a JSON document.                                                        *)
(***************************************************************************)
Keys == {"new-archive.gz"}
default_bucket_name == "bucket_name"

Dicts == {[kind |-> "dict", json |-> TRUE, rec |-> d] : d \in 1..2}
Blobs == {[kind |-> "bytes", json |-> FALSE, rec |-> 0]}

S3DataInputs == SeqsUpTo(Dicts, MaxS3Data) \cup SeqsUpTo(Blobs, MaxS3Data)

\* bytes(f"{json.dumps(data)}\n"): one JSON line
json_dumps(record) == [json |-> TRUE, rec |-> record.rec]

\* json.loads(line): the dictionary, or None on a decode error
json_loads(line) == IF line.json THEN Some([kind |-> "dict", json |-> TRUE, rec |-> line.rec])
                    ELSE None

\* _write_dict / _write_raw: the Body handed to put_object
S3Body(is_dict, chunk) ==
    IF is_dict THEN json_dumps(chunk) ELSE [json |-> chunk.json, rec |-> chunk.rec]

ExistingBody == [json |-> FALSE, rec |-> 0]

S3WriteInputs ==
    [call : {"write"}, data : S3DataInputs, target : Keys, ignore_errors : BOOLEAN,
     operation_type : {None} \cup {Some(o) : o \in OperationTypes},
     query : {None}, raw_output : {FALSE}, new : {FALSE}]

S3ReadInputs ==
    [call : {"read"}, data : {<<>>}, target : {default_bucket_name},
     ignore_errors : BOOLEAN, operation_type : {None},
     query : {None} \cup {Some(k) : k \in Keys}, raw_output : BOOLEAN, new : {FALSE}]

S3ListInputs ==
    [call : {"list"}, data : {<<>>}, target : {default_bucket_name},
     ignore_errors : {FALSE}, operation_type : {None}, query : {None},
     raw_output : {FALSE}, new : BOOLEAN]

S3NoInput == [call |-> "none", data |-> <<>>, target |-> default_bucket_name,
              ignore_errors |-> FALSE, operation_type |-> None, query |-> None,
              raw_output |-> FALSE, new |-> FALSE]

S3NoPre == [store |-> [k \in Keys |-> None], history |-> <<>>]

IdleS3 ==
    /\ s3_store = [k \in Keys |-> None]
    /\ s3_history = <<>>
    /\ s3_pc = "idle"
    /\ s3_in = S3NoInput
    /\ s3_pos = 0
    /\ s3_body = <<>>
    /\ s3_out = <<>>
    /\ s3_ret = NoRet
    /\ s3_pre = S3NoPre
    /\ s3_prev = None
    /\ s3_calls = 0

S3Op(in) == IF in.operation_type = None THEN "CREATE" ELSE The(in.operation_type)

S3RejectedOnlyAppend(op) == op \in {"APPEND"}

S3Rejected(op) == op \in {"APPEND", "DELETE"}

S3CallStarts(in) ==
    /\ backend = "s3"
    /\ s3_pc = "idle"
    /\ s3_calls < MaxS3Calls
    /\ s3_calls' = s3_calls + 1
    /\ s3_in' = in
    /\ s3_pre' = [store |-> s3_store, history |-> s3_history]
    /\ s3_pos' = 0
    /\ s3_out' = <<>>
    /\ UNCHANGED s3_prev

\* the caller has the result of a call and goes on; what it keeps of the call
\* is the data it has just written as dictionaries to a fresh object
S3_caller_continues ==
    /\ backend = "s3"
    /\ s3_pc = "done"
    /\ s3_pc' = "idle"
    /\ s3_prev' = IF /\ s3_in.call = "write"
                     /\ s3_ret = Returned(1)
                     /\ S3Op(s3_in) \in {"CREATE", "INDEX"}
                     /\ s3_in.data[1].kind = "dict"
                     /\ s3_pre.store[s3_in.target] = None
                  THEN Some([target |-> s3_in.target, data |-> s3_in.data])
                  ELSE None
    /\ s3_in' = S3NoInput
    /\ s3_pos' = 0
    /\ s3_body' = <<>>
    /\ s3_out' = <<>>
    /\ s3_ret' = NoRet
    /\ s3_pre' = S3NoPre
    /\ UNCHANGED <<s3_store, s3_history, s3_calls>>
    /\ UNCHANGED <<lrsVars, chunkVars, moreVars>>

\* HistoryMixin.append_to_history: the journal is append-only
append_to_history(history, entry) == Append(history, entry)

(***************************************************************************)
(* S3DataBackend.write                                                     *)
(***************************************************************************)
S3_write_begin ==
    \E in \in S3WriteInputs, listed \in BOOLEAN :
        /\ S3CallStarts(in)
        /\ LET op == S3Op(in)
           IN IF in.data = <<>>
              THEN s3_pc' = "done" /\ s3_ret' = Returned(0)
              ELSE IF S3Rejected(op)
              THEN s3_pc' = "done" /\ s3_ret' = Raised("BackendParameterException", None)
              ELSE IF op \in {"CREATE", "INDEX"}
              THEN IF ~listed
                   THEN s3_pc' = "done" /\ s3_ret' = Raised("BackendException", None)
                   ELSE IF s3_store[in.target] # None /\ ~in.ignore_errors
                   THEN s3_pc' = "done" /\ s3_ret' = Raised("BackendException", None)
                   ELSE s3_pc' = "put" /\ s3_ret' = NoRet
              ELSE s3_pc' = "done" /\ s3_ret' = Returned(1)
        /\ UNCHANGED <<s3_store, s3_history, s3_body>>
        /\ UNCHANGED <<lrsVars, chunkVars, moreVars>>

\* the except branch of the upload: with ignore_errors the method goes on to
\* the history entry, where `response` was never bound
S3UploadFailed ==
    /\ s3_pc' = "done"
    /\ s3_ret' = IF s3_in.ignore_errors THEN Raised("UnboundLocalError", None)
                 ELSE Raised("BackendException", None)

\* writer(target_bucket, target_object, chunk)
S3_write_put ==
    /\ backend = "s3"
    /\ s3_pc = "put"
    /\ s3_pos < Len(s3_in.data)
    /\ \E uploaded \in BOOLEAN :
        IF uploaded
        THEN /\ s3_store' = [s3_store EXCEPT ![s3_in.target] =
                    Some(<<S3Body(s3_in.data[1].kind = "dict", s3_in.data[s3_pos + 1])>>)]
             /\ s3_pos' = s3_pos + 1
             /\ UNCHANGED <<s3_pc, s3_ret>>
        ELSE /\ S3UploadFailed
             /\ UNCHANGED <<s3_store, s3_pos>>
    /\ UNCHANGED <<s3_history, s3_in, s3_body, s3_out, s3_pre, s3_prev, s3_calls>>
    /\ UNCHANGED <<lrsVars, chunkVars, moreVars>>

\* head_object, the history entry and the return
S3_write_head ==
    /\ backend = "s3"
    /\ s3_pc = "put"
    /\ s3_pos = Len(s3_in.data)
    /\ \E found \in BOOLEAN :
        IF found
        THEN /\ s3_history' = append_to_history(s3_history,
                    [action |-> "write", operation_type |-> Some(S3Op(s3_in)),
                     id |-> <<default_bucket_name, s3_in.target>>])
             /\ s3_pc' = "done"
             /\ s3_ret' = Returned(1)
        ELSE /\ S3UploadFailed
             /\ UNCHANGED s3_history
    /\ UNCHANGED <<s3_store, s3_in, s3_pos, s3_body, s3_out, s3_pre, s3_prev, s3_calls>>
    /\ UNCHANGED <<lrsVars, chunkVars, moreVars>>

(***************************************************************************)
(* S3DataBackend.read, driven by a consumer that iterates it to the end    *)
(***************************************************************************)
S3_read_begin ==
    \E in \in S3ReadInputs, fetched \in BOOLEAN :
        /\ S3CallStarts(in)
        /\ IF in.query = None
           THEN /\ s3_pc' = "done"
                /\ s3_ret' = Raised("BackendParameterException", None)
                /\ s3_body' = <<>>
           ELSE IF s3_store[The(in.query)] = None \/ ~fetched
           THEN /\ s3_pc' = "done"
                /\ s3_ret' = IF in.ignore_errors THEN Raised("UnboundLocalError", None)
                             ELSE Raised("BackendException", None)
                /\ s3_body' = <<>>
           ELSE /\ s3_pc' = "read"
                /\ s3_ret' = NoRet
                /\ s3_body' = The(s3_store[The(in.query)])
        /\ UNCHANGED <<s3_store, s3_history>>
        /\ UNCHANGED <<lrsVars, chunkVars, moreVars>>

\* one step of reader(response["Body"], chunk_size, ignore_errors)
S3_read_chunk ==
    /\ backend = "s3"
    /\ s3_pc = "read"
    /\ s3_pos < Len(s3_body)
    /\ s3_pos' = s3_pos + 1
    /\ LET line == s3_body[s3_pos + 1]
       IN IF s3_in.raw_output
          THEN /\ s3_out' = Append(s3_out, line)
               /\ UNCHANGED <<s3_pc, s3_ret>>
          ELSE IF json_loads(line) # None
          THEN /\ s3_out' = Append(s3_out, The(json_loads(line)))
               /\ UNCHANGED <<s3_pc, s3_ret>>
          ELSE IF s3_in.ignore_errors
          THEN UNCHANGED <<s3_out, s3_pc, s3_ret>>
          ELSE /\ s3_pc' = "done"
               /\ s3_ret' = Raised("BackendException", None)
               /\ UNCHANGED s3_out
    /\ UNCHANGED <<s3_store, s3_history, s3_in, s3_body, s3_pre, s3_prev, s3_calls>>
    /\ UNCHANGED <<lrsVars, chunkVars, moreVars>>

\* the body is exhausted: the history entry, then the generator ends
S3_read_end ==
    /\ backend = "s3"
    /\ s3_pc = "read"
    /\ s3_pos = Len(s3_body)
    /\ s3_history' = append_to_history(s3_history,
            [action |-> "read", operation_type |-> None,
             id |-> <<s3_in.target, The(s3_in.query)>>])
    /\ s3_pc' = "done"
    /\ s3_ret' = Returned(Len(s3_out))
    /\ UNCHANGED <<s3_store, s3_in, s3_pos, s3_body, s3_out, s3_pre, s3_prev, s3_calls>>
    /\ UNCHANGED <<lrsVars, chunkVars, moreVars>>

(***************************************************************************)
(* HistoryMixin.get_command_history: the ids of the journal entries of     *)
(* this backend whose action is `command`.                                 *)
(***************************************************************************)
get_command_history(history, command) ==
    {history[i].id : i \in {j \in 1..Len(history) : history[j].action = command}}

\* a string made of `/`-separated segments
Path(name) == <<name>>

RECURSIVE SeqOf(_)
SeqOf(S) == IF S = {} THEN <<>>
            ELSE LET x == CHOOSE y \in S : TRUE IN <<x>> \o SeqOf(S \ {x})

(***************************************************************************)
(* S3DataBackend.list, driven by a consumer that iterates it to the end    *)
(***************************************************************************)
\* obj["Key"] in objects_to_skip
S3Skips(key, target, objects_to_skip) == Path(key) \in objects_to_skip

S3_list_begin ==
    \E in \in S3ListInputs, paginated \in BOOLEAN :
        /\ S3CallStarts(in)
        /\ IF paginated
           THEN s3_pc' = "list" /\ s3_ret' = NoRet
           ELSE s3_pc' = "done" /\ s3_ret' = Raised("BackendException", None)
        /\ UNCHANGED <<s3_store, s3_history, s3_body>>
        /\ UNCHANGED <<lrsVars, chunkVars, moreVars>>

S3_list_end ==
    /\ backend = "s3"
    /\ s3_pc = "list"
    /\ LET objects_to_skip == IF s3_in.new THEN get_command_history(s3_history, "read")
                              ELSE {}
           contents == {k \in Keys : s3_store[k] # None}
       IN s3_out' = SeqOf({k \in contents :
                              ~(s3_in.new /\ S3Skips(k, s3_in.target, objects_to_skip))})
    /\ s3_pc' = "done"
    /\ s3_ret' = Returned(Len(s3_out'))
    /\ UNCHANGED <<s3_store, s3_history, s3_in, s3_pos, s3_body, s3_pre, s3_prev, s3_calls>>
    /\ UNCHANGED <<lrsVars, chunkVars, moreVars>>

(***************************************************************************)
(* LDPDataBackend: the archives of the configured stream.  The service     *)
(* name and the default stream id are set.                                 *)
(***************************************************************************)
LDPArchives == {"2020-06-16.gz", "2020-06-17.gz"}
LDP_stream_id == "stream_id"

LDP_other_stream_id == "other_stream_id"

LDPTargets == {None, Some(LDP_stream_id), Some(LDP_other_stream_id)}

LDPListInputs == [call : {"list"}, query : {None}, target : LDPTargets, new : BOOLEAN]

LDPReadInputs ==
    [call : {"read"}, query : {None} \cup {Some(a) : a \in LDPArchives},
     target : LDPTargets, new : {FALSE}]

LDPWriteInputs == [call : {"write"}, query : {None}, target : LDPTargets, new : {FALSE}]

\* result.iter_content(chunk_size): the archive as a sequence of chunks
LDPBodies == {[i \in 1..n |-> i] : n \in 0..MaxLDPChunks}

\* stream_id = stream_id if stream_id else self.stream_id
get_archive_endpoint(stream_id) ==
    IF stream_id = None THEN LDP_stream_id ELSE The(stream_id)

\* url(name): the endpoint is asked for without a stream id
LDP_url(name) == <<get_archive_endpoint(None), name>>

\* what the platform serves at a download url: the chunks of that archive
\* of that stream
LDPContent(url, body) == [i \in 1..Len(body) |-> <<url[1], url[2], body[i]>>]

LDPCallStarts(in) ==
    /\ backend = "ldp"
    /\ ldp_pc = "idle"
    /\ ldp_calls < MaxLDPCalls
    /\ ldp_calls' = ldp_calls + 1
    /\ ldp_in' = in
    /\ ldp_pre' = ldp_history
    /\ ldp_pos' = 0
    /\ ldp_out' = <<>>

\* the caller has the result of a call and goes on
LDP_caller_continues ==
    /\ backend = "ldp"
    /\ ldp_pc = "done"
    /\ ldp_pc' = "idle"
    /\ ldp_in' = LDPNoInput
    /\ ldp_body' = <<>>
    /\ ldp_pos' = 0
    /\ ldp_out' = <<>>
    /\ ldp_ret' = NoRet
    /\ ldp_pre' = <<>>
    /\ UNCHANGED <<ldp_history, ldp_calls>>
    /\ UNCHANGED <<lrsVars, chunkVars, s3Vars, rdVars, stVars, qvVars, spVars, dsVars, tdVars, insVars, ccVars, clVars>>

\* target = target if target else self.stream_id
LDPTarget(in) == IF in.target = None THEN LDP_stream_id ELSE The(in.target)

(***************************************************************************)
(* LDPDataBackend.list, driven by a consumer that iterates it to the end   *)
(***************************************************************************)
LDP_list_begin ==
    \E in \in LDPListInputs, fetched \in BOOLEAN :
        /\ LDPCallStarts(in)
        /\ IF fetched
           THEN ldp_pc' = "list" /\ ldp_ret' = NoRet
           ELSE ldp_pc' = "done" /\ ldp_ret' = Raised("BackendException", None)
        /\ UNCHANGED <<ldp_history, ldp_body>>
        /\ UNCHANGED <<lrsVars, chunkVars, s3Vars, rdVars, stVars, qvVars, spVars, dsVars, tdVars, insVars, ccVars, clVars>>

\* set(archives) - set(self.get_command_history(self.name, "read"))
LDPNewArchives(archives, history) ==
    {a \in archives : Path(a) \notin get_command_history(history, "read")}

LDP_list_end ==
    /\ backend = "ldp"
    /\ ldp_pc = "list"
    /\ ldp_out' = SeqOf(IF ldp_in.new THEN LDPNewArchives(LDPArchives, ldp_history)
                        ELSE LDPArchives)
    /\ ldp_pc' = "done"
    /\ ldp_ret' = Returned(Len(ldp_out'))
    /\ UNCHANGED <<ldp_history, ldp_in, ldp_body, ldp_pos, ldp_pre, ldp_calls>>
    /\ UNCHANGED <<lrsVars, chunkVars, s3Vars, rdVars, stVars, qvVars, spVars, dsVars, tdVars, insVars, ccVars, clVars>>

(***************************************************************************)
(* LDPDataBackend.read: the download url, the streamed request, the        *)
(* archive details and the history entry.                                  *)
(***************************************************************************)
LDP_read_begin ==
    \E in \in LDPReadInputs, url \in BOOLEAN, status_ok \in BOOLEAN, body \in LDPBodies :
        /\ LDPCallStarts(in)
        /\ IF in.query = None
           THEN /\ ldp_pc' = "done"
                /\ ldp_ret' = Raised("BackendParameterException", None)
                /\ ldp_body' = <<>>
           ELSE IF ~url
           THEN /\ ldp_pc' = "done"
                /\ ldp_ret' = Raised("APIError", None)
                /\ ldp_body' = <<>>
           ELSE IF ~status_ok
           THEN /\ ldp_pc' = "done"
                /\ ldp_ret' = Raised("BackendException", None)
                /\ ldp_body' = <<>>
           ELSE /\ ldp_pc' = "read"
                /\ ldp_ret' = NoRet
                /\ ldp_body' = LDPContent(LDP_url(The(in.query)), body)
        /\ UNCHANGED ldp_history
        /\ UNCHANGED <<lrsVars, chunkVars, s3Vars, rdVars, stVars, qvVars, spVars, dsVars, tdVars, insVars, ccVars, clVars>>

\* one chunk of result.iter_content, or the connection breaking under it
LDP_read_chunk ==
    /\ backend = "ldp"
    /\ ldp_pc = "read"
    /\ ldp_pos < Len(ldp_body)
    /\ \E streamed \in BOOLEAN :
        IF streamed
        THEN /\ ldp_pos' = ldp_pos + 1
             /\ ldp_out' = Append(ldp_out, ldp_body[ldp_pos + 1])
             /\ UNCHANGED <<ldp_pc, ldp_ret>>
        ELSE /\ ldp_pc' = "done"
             /\ ldp_ret' = Raised("RequestException", None)
             /\ UNCHANGED <<ldp_pos, ldp_out>>
    /\ UNCHANGED <<ldp_history, ldp_in, ldp_body, ldp_pre, ldp_calls>>
    /\ UNCHANGED <<lrsVars, chunkVars, s3Vars, rdVars, stVars, qvVars, spVars, dsVars, tdVars, insVars, ccVars, clVars>>

\* the stream is exhausted: _details, the history entry, the generator ends
LDP_read_end ==
    /\ backend = "ldp"
    /\ ldp_pc = "read"
    /\ ldp_pos = Len(ldp_body)
    /\ \E details \in BOOLEAN :
        IF details
        THEN /\ ldp_history' = append_to_history(ldp_history,
                    [action |-> "read",
                     id |-> <<LDPTarget(ldp_in), The(ldp_in.query)>>])
             /\ ldp_ret' = Returned(Len(ldp_out))
        ELSE /\ ldp_ret' = Raised("APIError", None)
             /\ UNCHANGED ldp_history
    /\ ldp_pc' = "done"
    /\ UNCHANGED <<ldp_in, ldp_body, ldp_pos, ldp_out, ldp_pre, ldp_calls>>
    /\ UNCHANGED <<lrsVars, chunkVars, s3Vars, rdVars, stVars, qvVars, spVars, dsVars, tdVars, insVars, ccVars, clVars>>

\* the consumer stops iterating: the generator is closed at its yield
LDP_read_close ==
    /\ backend = "ldp"
    /\ ldp_pc = "read"
    /\ ldp_pos > 0
    /\ ldp_pc' = "done"
    /\ ldp_ret' = [kind |-> "closed", value |-> 0, exc |-> "", carried |-> None]
    /\ UNCHANGED <<ldp_history, ldp_in, ldp_body, ldp_pos, ldp_out, ldp_pre, ldp_calls>>
    /\ UNCHANGED <<lrsVars, chunkVars, s3Vars, rdVars, stVars, qvVars, spVars, dsVars, tdVars, insVars, ccVars, clVars>>

\* LDPDataBackend.write: the backend is read-only
LDP_write ==
    \E in \in LDPWriteInputs :
        /\ LDPCallStarts(in)
        /\ ldp_pc' = "done"
        /\ ldp_ret' = Raised("NotImplementedError", None)
        /\ UNCHANGED <<ldp_history, ldp_body>>
        /\ UNCHANGED <<lrsVars, chunkVars, s3Vars, rdVars, stVars, qvVars, spVars, dsVars, tdVars, insVars, ccVars, clVars>>

\* the same with the history entry written in a finally clause
S3_read_close_appends ==
    /\ backend = "s3"
    /\ s3_pc = "read"
    /\ s3_pos > 0
    /\ s3_pc' = "done"
    /\ s3_ret' = [kind |-> "closed", value |-> 0, exc |-> "", carried |-> None]
    /\ s3_history' = append_to_history(s3_history,
            [action |-> "read", operation_type |-> None,
             id |-> <<s3_in.target, The(s3_in.query)>>])
    /\ UNCHANGED <<s3_store, s3_in, s3_pos, s3_body, s3_out, s3_pre, s3_prev, s3_calls>>
    /\ UNCHANGED <<lrsVars, chunkVars, moreVars>>

\* the consumer of S3DataBackend.read stops iterating
S3_read_close ==
    /\ backend = "s3"
    /\ s3_pc = "read"
    /\ s3_pos > 0
    /\ s3_pc' = "done"
    /\ s3_ret' = [kind |-> "closed", value |-> 0, exc |-> "", carried |-> None]
    /\ UNCHANGED <<s3_store, s3_history, s3_in, s3_pos, s3_body, s3_out, s3_pre,
                   s3_prev, s3_calls>>
    /\ UNCHANGED <<lrsVars, chunkVars, moreVars>>

(***************************************************************************)
(* The data backend instances.                                             *)
(***************************************************************************)
Init ==
    /\ backend \in {"clickhouse", "es", "async_mongo", "s3", "ldp"}
    /\ pc = "idle"
    /\ w_in = NoInput
    /\ w_pos = 0
    /\ w_batch = <<>>
    /\ w_success = 0
    /\ w_flushed = <<>>
    /\ w_persisted = 0
    /\ w_ret = NoRet
    /\ coll \in (IF backend = "async_mongo" THEN SUBSET StatementIds ELSE {{}})
    /\ q_backend = "none"
    /\ q_table = {}
    /\ q_params = [ascending |-> FALSE, limit |-> None, since |-> None, until |-> None]
    /\ q_cursor = [search_after |-> None, pit_id |-> None]
    /\ q_out = <<>>
    /\ q_last = <<>>
    /\ q_calls = 0
    /\ q_done = FALSE
    /\ s3_store \in (IF backend = "s3" THEN [Keys -> {None, Some(<<ExistingBody>>)}]
                     ELSE {[k \in Keys |-> None]})
    /\ s3_history = <<>>
    /\ s3_pc = "idle"
    /\ s3_in = S3NoInput
    /\ s3_pos = 0
    /\ s3_body = <<>>
    /\ s3_out = <<>>
    /\ s3_ret = NoRet
    /\ s3_pre = S3NoPre
    /\ s3_prev = None
    /\ s3_calls = 0
    /\ IdleMore

Next ==
    \/ CH_write_begin
    \/ CH_write_document
    \/ CH_write_finish
    \/ Mongo_put_begin
    \/ Mongo_put_document
    \/ Mongo_put_finish
    \/ ES_write_begin
    \/ ES_write_chunk
    \/ ES_write_finish
    \/ S3_write_begin
    \/ S3_write_put
    \/ S3_write_head
    \/ S3_read_begin
    \/ S3_read_chunk
    \/ S3_read_end
    \/ S3_list_begin
    \/ S3_list_end
    \/ S3_read_close
    \/ LDP_list_begin
    \/ LDP_list_end
    \/ LDP_read_begin
    \/ LDP_read_chunk
    \/ LDP_read_end
    \/ LDP_read_close
    \/ LDP_write
    \/ LDP_caller_continues
    \/ S3_caller_continues

Spec == Init /\ [][Next]_vars

RECURSIVE SumRet(_)
SumRet(fl) == IF fl = <<>> THEN 0 ELSE fl[1].ret + SumRet(Tail(fl))

RECURSIVE SumOkSizes(_)
SumOkSizes(fl) ==
    IF fl = <<>> THEN 0
    ELSE (IF fl[1].failed THEN 0 ELSE Len(fl[1].batch)) + SumOkSizes(Tail(fl))

(***************************************************************************)
(* C3: when ClickHouseDataBackend.write returns, the returned count is the *)
(* sum of the sizes of the batches whose bulk insert succeeded, and never  *)
(* exceeds the number of rows the call persisted.                          *)
(***************************************************************************)
WriteCountNeverOverCounts ==
    (backend = "clickhouse" /\ w_ret.kind = "returned") =>
        /\ w_ret.value = SumOkSizes(w_flushed)
        /\ w_ret.value <= w_persisted

WitnessWriteCount ==
    /\ backend = "clickhouse"
    /\ w_ret.kind = "returned"
    /\ w_ret.value > 0
    /\ \E i \in 1..Len(w_flushed) : w_flushed[i].failed

(***************************************************************************)
(* C4: with ignore_errors = false, a failed bulk flush makes write/put     *)
(* raise at that first failure (no later chunk is flushed) and the raised  *)
(* error carries the number of rows written by the chunks flushed before   *)
(* it, for the column store, the search cluster and the async document     *)
(* store.                                                                  *)
(***************************************************************************)
RaiseCarriesPriorCount ==
    backend \in {"clickhouse", "es", "async_mongo"} =>
        \A i \in 1..Len(w_flushed) :
            (w_flushed[i].failed /\ ~w_in.ignore_errors) =>
                /\ i = Len(w_flushed)
                /\ w_ret.kind = "raised"
                /\ w_ret.carried = Some(SumOkSizes(SubSeq(w_flushed, 1, i - 1)))

RECURSIVE Concat(_)
Concat(fl) == IF fl = <<>> THEN <<>> ELSE fl[1].batch \o Concat(Tail(fl))

RECURSIVE ValidIds(_)
ValidIds(data) ==
    IF data = <<>> THEN <<>>
    ELSE (IF data[1].valid THEN <<data[1].id>> ELSE <<>>) \o ValidIds(Tail(data))

\* the call ended on the exception bulk_import raises
RaisedByBulkImport == w_ret.kind = "raised" /\ w_ret.exc = "BackendException"

HasDuplicate(batch) == \E i, j \in 1..Len(batch) : i # j /\ batch[i] = batch[j]

DuplicateBatchRejected ==
    backend = "clickhouse" =>
        \A i \in 1..Len(w_flushed) :
            HasDuplicate(w_flushed[i].batch) =>
                /\ w_flushed[i].inserted = 0
                /\ w_flushed[i].failed
                /\ w_flushed[i].ret = 0
                /\ (w_in.ignore_errors => w_ret.kind # "raised")
                /\ (~w_in.ignore_errors =>
                        /\ i = Len(w_flushed)
                        /\ w_ret = Raised("BackendException", None))

WitnessDuplicateBatch ==
    /\ backend = "clickhouse"
    /\ w_in.ignore_errors
    /\ w_ret = Returned(0)
    /\ \E i \in 1..Len(w_flushed) :
          LET b == w_flushed[i].batch
          IN Len(b) = 3 /\ b[1] = b[3] /\ b[1] # b[2]

(***************************************************************************)
(* C7 (as stated): for every input data sequence, including an empty one,  *)
(* write with an operation type outside the backend's allowed set (column  *)
(* store: anything but CREATE; search cluster: APPEND; object store:       *)
(* APPEND or DELETE) fails with a parameter error and persists nothing.    *)
(***************************************************************************)
CHDisallowed ==
    /\ backend = "clickhouse"
    /\ pc = "done"
    /\ w_in.operation_type \notin {None, Some("CREATE")}

ESDisallowed ==
    /\ backend = "es"
    /\ pc = "done"
    /\ w_in.operation_type = Some("APPEND")

S3Disallowed ==
    /\ backend = "s3"
    /\ s3_pc = "done"
    /\ s3_in.call = "write"
    /\ s3_in.operation_type \in {Some("APPEND"), Some("DELETE")}

NothingPersisted ==
    /\ w_flushed = <<>>
    /\ w_persisted = 0
    /\ (backend = "s3" => s3_store = s3_pre.store /\ s3_history = s3_pre.history)

OperationTypePolicyAnyData ==
    /\ (CHDisallowed \/ ESDisallowed) =>
            w_ret = Raised("BackendParameterException", None) /\ NothingPersisted
    /\ S3Disallowed =>
            s3_ret = Raised("BackendParameterException", None) /\ NothingPersisted

(***************************************************************************)
(* C7 (amended): write with an operation type outside the backend's        *)
(* allowed set persists nothing; on a non-empty input it fails with a      *)
(* parameter error, on an empty input it returns 0 without an error.       *)
(***************************************************************************)
OperationTypePolicy ==
    /\ (CHDisallowed \/ ESDisallowed) =>
            /\ NothingPersisted
            /\ w_ret = IF w_in.data = <<>> THEN Returned(0)
                       ELSE Raised("BackendParameterException", None)
    /\ S3Disallowed =>
            /\ NothingPersisted
            /\ s3_ret = IF s3_in.data = <<>> THEN Returned(0)
                        ELSE Raised("BackendParameterException", None)

WitnessOperationTypePolicy ==
    /\ S3Disallowed
    /\ s3_in.operation_type = Some("DELETE")
    /\ s3_in.data # <<>>
    /\ s3_store[s3_in.target] # None
    /\ s3_ret.kind = "raised"

(***************************************************************************)
(* C8: an object-store write of data with operation type CREATE or INDEX   *)
(* (or the default) whose target key already exists fails, leaves the      *)
(* existing object's content unchanged and appends no history entry, for   *)
(* every value of ignore_errors.                                           *)
(***************************************************************************)
S3WritesOnExisting ==
    /\ backend = "s3"
    /\ s3_in.call = "write"
    /\ s3_in.data # <<>>
    /\ S3Op(s3_in) \in {"CREATE", "INDEX"}
    /\ s3_pre.store[s3_in.target] # None

OverwriteRefused ==
    S3WritesOnExisting =>
        /\ s3_store[s3_in.target] = s3_pre.store[s3_in.target]
        /\ s3_history = s3_pre.history
        /\ (s3_pc = "done" => s3_ret.kind = "raised")

(***************************************************************************)
(* C9: an object-store write with operation type UPDATE and non-empty data *)
(* replaces the target object's content with the written data, whether or  *)
(* not the target already exists, and returns 1.                           *)
(***************************************************************************)
S3Written(data) == [i \in 1..Len(data) |-> S3Body(data[1].kind = "dict", data[i])]

UpdateReplacesContent ==
    (/\ backend = "s3"
     /\ s3_pc = "done"
     /\ s3_in.call = "write"
     /\ s3_in.data # <<>>
     /\ S3Op(s3_in) = "UPDATE") =>
        /\ s3_ret = Returned(1)
        /\ s3_store[s3_in.target] = Some(S3Written(s3_in.data))

(***************************************************************************)
(* C10: after a successful S3DataBackend.write of n >= 1 dictionary        *)
(* records to an absent target, a read of that target with raw_output =    *)
(* false that runs to its end yields exactly those n records, in input     *)
(* order.                                                                  *)
(***************************************************************************)
ReadsBackWritten ==
    (/\ backend = "s3"
     /\ s3_pc = "done"
     /\ s3_in.call = "read"
     /\ ~s3_in.raw_output
     /\ s3_ret.kind = "returned"
     /\ s3_prev # None
     /\ s3_in.query = Some(The(s3_prev).target)) =>
        s3_out = The(s3_prev).data

(***************************************************************************)
(* The tables the client may face.  Column-store rows are identified by    *)
(* their primary key (emission_time, event_id); the collection has a       *)
(* unique index on _id.                                                    *)
(***************************************************************************)
Tables == {T \in SUBSET Rows : Cardinality(T) <= MaxRows}

Collections ==
    {T \in Tables : \A a, b \in T : ObjectId(a) = ObjectId(b) => a = b}

Params ==
    [ascending : BOOLEAN, limit : {None} \cup {Some(n) : n \in 0..MaxLimit},
     since : {None, Some(0)}, until : {None, Some(1)}]

InitLRS ==
    /\ q_backend \in {"clickhouse", "async_mongo"}
    /\ q_table \in (IF q_backend = "clickhouse" THEN Tables ELSE Collections)
    /\ q_params \in Params
    /\ q_cursor = [search_after |-> None, pit_id |-> None]
    /\ q_out = <<>>
    /\ q_last = <<>>
    /\ q_calls = 0
    /\ q_done = FALSE
    /\ IdleChunker
    /\ IdleS3
    /\ IdleMore

NextLRS ==
    \/ CH_query_statements
    \/ Mongo_query_statements

SpecLRS == InitLRS /\ [][NextLRS]_vars

(***************************************************************************)
(* C1: chaining ClickHouseLRSBackend.query_statements through the cursor   *)
(* over an unchanging table returns, up to the first empty page, every row *)
(* matching the predicate exactly once, in (emission_time, event_id) order *)
(* in the chosen direction, also when rows share an emission_time.         *)
(***************************************************************************)
CHExpected == OrderBy({r \in q_table : CHWhereParams(r, q_params)}, q_params.ascending)

CursorCompleteCH ==
    q_backend = "clickhouse" =>
        /\ IsPrefix(q_out, CHExpected)
        /\ (q_done => q_out = CHExpected)

SharesTime(s) == \E i, j \in 1..Len(s) : i # j /\ s[i].t = s[j].t

WitnessCursorCompleteCH ==
    /\ q_backend = "clickhouse"
    /\ q_done
    /\ q_calls >= 3
    /\ Len(q_out) >= 2
    /\ SharesTime(q_out)

(***************************************************************************)
(* C2: chaining AsyncMongoDatabase.query_statements through the cursor     *)
(* over an unchanging collection returns every matching document exactly   *)
(* once in (_source.timestamp, _id) order in the chosen direction.         *)
(***************************************************************************)
MongoExpected ==
    MongoOrderBy({r \in q_table : MongoFilterParams(r, q_params)}, q_params.ascending)

CursorCompleteMongo ==
    q_backend = "async_mongo" =>
        /\ IsPrefix(q_out, MongoExpected)
        /\ (q_done => q_out = MongoExpected)

(***************************************************************************)
(* ClickHouseDataBackend.read with no query:                               *)
(*   SELECT event FROM {target} LIMIT {chunk_size}                         *)
(* The event table holds what the flushes of the write have inserted.      *)
(***************************************************************************)
RECURSIVE CHTable(_)
CHTable(fl) ==
    IF fl = <<>> THEN <<>>
    ELSE SubSeq(fl[1].batch, 1, fl[1].inserted) \o CHTable(Tail(fl))

\* a named result of the query: one column, event
CHNamedResults(table, chunk_size) ==
    LET limit == IF chunk_size = None THEN default_chunk_size ELSE The(chunk_size)
        n == IF Len(table) < limit THEN Len(table) ELSE limit
    IN [i \in 1..n |-> [event |-> table[i]]]

CH_read_dict(document) == document

CH_read ==
    /\ backend = "clickhouse"
    /\ pc = "done"
    /\ rd_pc = "idle"
    /\ \E chunk_size \in ChunkSizes :
        /\ rd_in' = [chunk_size |-> chunk_size]
        /\ LET result == CHNamedResults(CHTable(w_flushed), chunk_size)
           IN rd_out' = [i \in 1..Len(result) |-> CH_read_dict(result[i])]
    /\ rd_pc' = "done"
    /\ UNCHANGED <<lrsVars, chunkVars, s3Vars, ldpVars, stVars, qvVars, spVars, dsVars, tdVars, insVars, ccVars, clVars>>

InitCH ==
    /\ Init
    /\ backend = "clickhouse"

NextCH ==
    \/ CH_write_begin
    \/ CH_write_document
    \/ CH_write_finish
    \/ CH_read

SpecCH == InitCH /\ [][NextCH]_vars

(***************************************************************************)
(* C11: after ClickHouseDataBackend.write has persisted n statements into  *)
(* an empty table, read with no query yields all n statements, each equal  *)
(* to its input, for every value of the read chunk_size (the default       *)
(* included).                                                              *)
(***************************************************************************)
RoundTripCH ==
    (backend = "clickhouse" /\ rd_pc = "done") =>
        [i \in 1..Len(rd_out) |-> rd_out[i].event] = CHTable(w_flushed)

(***************************************************************************)
(* C12: once a read of archive A from target T has been consumed to its    *)
(* end, every later list(target = T, new = true) omits A and still yields  *)
(* every archive of T that has not been read (object store).               *)
(***************************************************************************)
S3ReadToEnd(key, target, history) ==
    \E i \in 1..Len(history) :
        history[i].action = "read" /\ history[i].id = <<target, key>>

NewListOmitsReadS3 ==
    (/\ backend = "s3"
     /\ s3_pc = "done"
     /\ s3_in.call = "list"
     /\ s3_in.new
     /\ s3_ret.kind = "returned") =>
        \A k \in Keys :
            IF S3ReadToEnd(k, s3_in.target, s3_pre.history)
            THEN k \notin Range(s3_out)
            ELSE s3_store[k] # None => k \in Range(s3_out)

\* the same, for the log-archive backend
LDPReadToEnd(archive, target, history) ==
    \E i \in 1..Len(history) :
        history[i].action = "read" /\ history[i].id = <<target, archive>>

NewListOmitsReadLDP ==
    (/\ backend = "ldp"
     /\ ldp_pc = "done"
     /\ ldp_in.call = "list"
     /\ ldp_in.new
     /\ ldp_ret.kind = "returned") =>
        \A a \in LDPArchives :
            IF LDPReadToEnd(a, LDPTarget(ldp_in), ldp_pre)
            THEN a \notin Range(ldp_out)
            ELSE a \in Range(ldp_out)

NewListOmitsRead == NewListOmitsReadS3 /\ NewListOmitsReadLDP

(***************************************************************************)
(* C13: a read appends exactly one history entry, and only once its lazy   *)
(* sequence has been consumed to the end without error; a read that        *)
(* raises or whose consumer stops early, and a write that fails, append    *)
(* nothing; entries already in the history are never modified or removed.  *)
(***************************************************************************)
S3ReadEntry ==
    [action |-> "read", operation_type |-> None,
     id |-> <<s3_in.target, The(s3_in.query)>>]

LDPReadEntry ==
    [action |-> "read", id |-> <<LDPTarget(ldp_in), The(ldp_in.query)>>]

S3HistoryAfterSuccess ==
    /\ s3_in.call = "read" =>
          s3_history = IF s3_pc = "done" /\ s3_ret.kind = "returned"
                       THEN Append(s3_pre.history, S3ReadEntry)
                       ELSE s3_pre.history
    /\ (s3_in.call = "write" /\ s3_ret.kind # "returned") =>
          s3_history = s3_pre.history

LDPHistoryAfterSuccess ==
    /\ ldp_in.call = "read" =>
          ldp_history = IF ldp_pc = "done" /\ ldp_ret.kind = "returned"
                        THEN Append(ldp_pre, LDPReadEntry)
                        ELSE ldp_pre
    /\ ldp_in.call = "write" => ldp_history = ldp_pre

HistoryOnlyAfterSuccess ==
    /\ [](S3HistoryAfterSuccess /\ LDPHistoryAfterSuccess)
    /\ [][IsPrefix(s3_history, s3_history') /\ IsPrefix(ldp_history, ldp_history')]_vars

WitnessHistoryOnlyAfterSuccess ==
    /\ backend = "ldp"
    /\ ldp_in.call = "read"
    /\ ldp_ret.kind = "closed"
    /\ Len(ldp_history) = 1
    /\ ldp_history[1].id = <<LDP_stream_id, The(ldp_in.query)>>

(***************************************************************************)
(* status(): the probe of each backend, step by step.  A probe step either *)
(* answers or raises one of the errors of its driver.                      *)
(***************************************************************************)
StatusBackends == {"es", "clickhouse", "s3", "async_mongo", "ldp"}

StReturned(v) == [kind |-> "returned", value |-> v, exc |-> ""]
StRaised(e) == [kind |-> "raised", value |-> "", exc |-> e]

StatusStarts(b) ==
    /\ st_backend = b
    /\ st_pc = "idle"
    /\ Len(st_results) < MaxStatusCalls

StatusEnds(ret) ==
    /\ st_pc' = "done"
    /\ st_ret' = ret

\* self.client.info()
ES_status_info ==
    /\ StatusStarts("es")
    /\ \E info \in {"ok", "ESConnectionError", "ApiError"} :
        /\ st_probe' = <<info>>
        /\ IF info = "ok" THEN st_pc' = "health" /\ st_ret' = st_ret
           ELSE IF info = "ESConnectionError" THEN StatusEnds(StReturned("AWAY"))
           ELSE StatusEnds(StRaised(info))
    /\ UNCHANGED <<st_backend, st_client, st_configured, st_results>>
    /\ UNCHANGED <<lrsVars, chunkVars, s3Vars, rdVars, ldpVars, qvVars, spVars, dsVars, tdVars, insVars, ccVars, clVars>>

\* a probe that answers from the result of the call before
ES_status_health_cached ==
    /\ st_backend = "es"
    /\ st_pc = "health"
    /\ \E health \in {"green", "yellow", "red", "ESConnectionError"} :
        /\ st_probe' = Append(st_probe, health)
        /\ IF st_results # <<>> THEN StatusEnds(st_results[Len(st_results)])
           ELSE IF health = "ESConnectionError" THEN StatusEnds(StRaised(health))
           ELSE IF health # "green" THEN StatusEnds(StReturned("ERROR"))
           ELSE StatusEnds(StReturned("OK"))
    /\ UNCHANGED <<st_backend, st_client, st_configured, st_results>>
    /\ UNCHANGED <<lrsVars, chunkVars, s3Vars, rdVars, ldpVars, qvVars, spVars, dsVars, tdVars, insVars, ccVars, clVars>>

\* self.client.cat.health(), outside the try
ES_status_health ==
    /\ st_backend = "es"
    /\ st_pc = "health"
    /\ \E health \in {"green", "yellow", "red", "ESConnectionError"} :
        /\ st_probe' = Append(st_probe, health)
        /\ IF health = "ESConnectionError" THEN StatusEnds(StRaised(health))
           ELSE IF health # "green" THEN StatusEnds(StReturned("ERROR"))
           ELSE StatusEnds(StReturned("OK"))
    /\ UNCHANGED <<st_backend, st_client, st_configured, st_results>>
    /\ UNCHANGED <<lrsVars, chunkVars, s3Vars, rdVars, ldpVars, qvVars, spVars, dsVars, tdVars, insVars, ccVars, clVars>>

\* self.client (created on first use and kept), then query("SELECT 1")
CH_status ==
    /\ StatusStarts("clickhouse")
    /\ \E get_client \in {"ok", "ClickHouseError"}, query \in {"ok", "ClickHouseError"} :
        IF ~st_client /\ get_client # "ok"
        THEN /\ st_probe' = <<get_client>>
             /\ st_client' = FALSE
             /\ StatusEnds(StReturned("AWAY"))
        ELSE /\ st_probe' = <<query>>
             /\ st_client' = TRUE
             /\ IF query = "ok" THEN StatusEnds(StReturned("OK"))
                ELSE StatusEnds(StReturned("AWAY"))
    /\ UNCHANGED <<st_backend, st_configured, st_results>>
    /\ UNCHANGED <<lrsVars, chunkVars, s3Vars, rdVars, ldpVars, qvVars, spVars, dsVars, tdVars, insVars, ccVars, clVars>>

\* self.client.head_bucket(Bucket = self.default_bucket_name)
S3_status ==
    /\ StatusStarts("s3")
    /\ \E head_bucket \in {"ok", "ClientError", "EndpointConnectionError"} :
        /\ st_probe' = <<head_bucket>>
        /\ IF head_bucket = "ok" THEN StatusEnds(StReturned("OK"))
           ELSE IF head_bucket = "ClientError" THEN StatusEnds(StReturned("ERROR"))
           ELSE StatusEnds(StRaised(head_bucket))
    /\ UNCHANGED <<st_backend, st_client, st_configured, st_results>>
    /\ UNCHANGED <<lrsVars, chunkVars, s3Vars, rdVars, ldpVars, qvVars, spVars, dsVars, tdVars, insVars, ccVars, clVars>>

\* await self.client.admin.command("ping")
Mongo_status_ping ==
    /\ StatusStarts("async_mongo")
    /\ \E ping \in {"ok", "ConnectionFailure", "OperationFailure"} :
        /\ st_probe' = <<ping>>
        /\ IF ping = "ok" THEN st_pc' = "serverStatus" /\ st_ret' = st_ret
           ELSE IF ping = "ConnectionFailure" THEN StatusEnds(StReturned("AWAY"))
           ELSE StatusEnds(StRaised(ping))
    /\ UNCHANGED <<st_backend, st_client, st_configured, st_results>>
    /\ UNCHANGED <<lrsVars, chunkVars, s3Vars, rdVars, ldpVars, qvVars, spVars, dsVars, tdVars, insVars, ccVars, clVars>>

\* (await self.client.admin.command("serverStatus")).get("ok", 0.0) < 1.0
Mongo_status_serverStatus ==
    /\ st_backend = "async_mongo"
    /\ st_pc = "serverStatus"
    /\ \E server \in {"ok", "not_ok", "ConnectionFailure"} :
        /\ st_probe' = Append(st_probe, server)
        /\ IF server = "ConnectionFailure" THEN StatusEnds(StRaised(server))
           ELSE IF server = "not_ok" THEN StatusEnds(StReturned("ERROR"))
           ELSE StatusEnds(StReturned("OK"))
    /\ UNCHANGED <<st_backend, st_client, st_configured, st_results>>
    /\ UNCHANGED <<lrsVars, chunkVars, s3Vars, rdVars, ldpVars, qvVars, spVars, dsVars, tdVars, insVars, ccVars, clVars>>

\* self.client.get(self.get_archive_endpoint())
LDP_status ==
    /\ StatusStarts("ldp")
    /\ \E get \in {"ok", "APIError"} :
        IF ~st_configured
        THEN /\ st_probe' = <<"BackendParameterException">>
             /\ StatusEnds(StReturned("ERROR"))
        ELSE /\ st_probe' = <<get>>
             /\ IF get = "ok" THEN StatusEnds(StReturned("OK"))
                ELSE StatusEnds(StReturned("ERROR"))
    /\ UNCHANGED <<st_backend, st_client, st_configured, st_results>>
    /\ UNCHANGED <<lrsVars, chunkVars, s3Vars, rdVars, ldpVars, qvVars, spVars, dsVars, tdVars, insVars, ccVars, clVars>>

\* the caller has the result and may ask again
Status_caller_continues ==
    /\ st_pc = "done"
    /\ st_pc' = "idle"
    /\ st_results' = Append(st_results, st_ret)
    /\ st_probe' = <<>>
    /\ st_ret' = StNoRet
    /\ UNCHANGED <<st_backend, st_client, st_configured>>
    /\ UNCHANGED <<lrsVars, chunkVars, s3Vars, rdVars, ldpVars, qvVars, spVars, dsVars, tdVars, insVars, ccVars, clVars>>

InitStatus ==
    /\ q_backend = "none"
    /\ q_table = {}
    /\ q_params = [ascending |-> FALSE, limit |-> None, since |-> None, until |-> None]
    /\ q_cursor = [search_after |-> None, pit_id |-> None]
    /\ q_out = <<>>
    /\ q_last = <<>>
    /\ q_calls = 0
    /\ q_done = FALSE
    /\ IdleChunker
    /\ IdleS3
    /\ IdleClient
    /\ IdleCreate
    /\ IdleInsert
    /\ IdleDocs
    /\ IdleRead
    /\ IdleLDP
    /\ IdleGet
    /\ IdleParams
    /\ IdleDispatch
    /\ st_backend \in StatusBackends
    /\ st_client = FALSE
    /\ st_configured \in (IF st_backend = "ldp" THEN BOOLEAN ELSE {TRUE})
    /\ st_pc = "idle"
    /\ st_probe = <<>>
    /\ st_ret = StNoRet
    /\ st_results = <<>>

NextStatus ==
    \/ ES_status_info
    \/ ES_status_health
    \/ CH_status
    \/ S3_status
    \/ Mongo_status_ping
    \/ Mongo_status_serverStatus
    \/ LDP_status
    \/ Status_caller_continues

SpecStatus == InitStatus /\ [][NextStatus]_vars

(***************************************************************************)
(* C14: the value a status() call returns is determined by the outcome of  *)
(* the probe it runs alone, whatever the earlier results were: AWAY when   *)
(* the transport fails (search cluster: connection error; column store:    *)
(* driver error), ERROR when the peer is reachable but unhealthy (search   *)
(* cluster: health not green; object store: bucket head rejected), OK      *)
(* otherwise.                                                              *)
(***************************************************************************)
StatusTaxonomy(b, probe) ==
    LET last == probe[Len(probe)]
    IN CASE b = "es" -> IF last = "ESConnectionError" THEN "AWAY"
                        ELSE IF last \in {"yellow", "red"} THEN "ERROR" ELSE "OK"
         [] b = "clickhouse" -> IF last = "ClickHouseError" THEN "AWAY" ELSE "OK"
         [] b = "s3" -> IF last = "ClientError" THEN "ERROR" ELSE "OK"

StatusProbeCases ==
    {"ok", "green", "yellow", "red", "not_ok",
     "ESConnectionError", "ClickHouseError", "EndpointConnectionError",
     "ConnectionFailure", "ClientError", "APIError", "BackendParameterException"}

StatusNeverRaises ==
    (st_pc = "done" /\ Range(st_probe) \subseteq StatusProbeCases) =>
        /\ st_ret.kind = "returned"
        /\ st_ret.value \in {"OK", "AWAY", "ERROR"}

(***************************************************************************)
(* enforce_query_checks around AsyncMongoDatabase.get.  A query argument   *)
(* is an instance of some class, or absent; the caller passes it by        *)
(* keyword or by position.                                                 *)
(***************************************************************************)
QueryClasses == {"MongoQuery", "BaseQuery", "str", "dict"}
query_model == "MongoQuery"

GetInputs ==
    [query : QueryClasses, passed : {"keyword", "positional"}, chunk_size : 1..2]
        \cup [query : {"None"}, passed : {"keyword", "omitted"}, chunk_size : 1..2]

\* isinstance(query, self.query_model)
isinstance(query, model) == query = model

\* BaseDatabase.validate_query
validate_query(query) ==
    LET q == IF query = "None" THEN query_model ELSE query
    IN IF ~isinstance(q, query_model)
       THEN [raised |-> TRUE, query |-> None]
       ELSE [raised |-> FALSE, query |-> Some(q)]

\* wrapper(*args, **kwargs): query = kwargs.pop("query", None), then
\* method(*args, query = validate_query(query), **kwargs)
Get_call ==
    /\ qv_pc = "idle"
    /\ \E in \in GetInputs :
        /\ qv_in' = in
        /\ LET query == IF in.passed = "keyword" THEN in.query ELSE "None"
               valid == validate_query(query)
           IN IF valid.raised
              THEN /\ qv_pc' = "done"
                   /\ qv_ret' = StRaised("BackendParameterException")
                   /\ qv_received' = None
              ELSE IF in.passed = "positional"
              THEN /\ qv_pc' = "done"
                   /\ qv_ret' = StRaised("TypeError")
                   /\ qv_received' = None
              ELSE /\ qv_pc' = "generator"
                   /\ qv_ret' = qv_ret
                   /\ qv_received' = valid.query
    /\ UNCHANGED <<qv_docs, qv_io, qv_out>>
    /\ UNCHANGED <<lrsVars, chunkVars, s3Vars, rdVars, ldpVars, stVars, spVars, dsVars, tdVars, insVars, ccVars, clVars>>

\* the consumer requests the next document: the cursor fetches a batch when
\* it has none left
Get_next ==
    /\ qv_pc = "generator"
    /\ IF qv_out < qv_docs
       THEN /\ qv_out' = qv_out + 1
            /\ qv_io' = IF qv_out % qv_in.chunk_size = 0 THEN qv_io + 1 ELSE qv_io
            /\ UNCHANGED <<qv_pc, qv_ret>>
       ELSE /\ qv_pc' = "done"
            /\ qv_ret' = StReturned("StopAsyncIteration")
            /\ qv_io' = IF qv_out % qv_in.chunk_size = 0 THEN qv_io + 1 ELSE qv_io
            /\ UNCHANGED qv_out
    /\ UNCHANGED <<qv_docs, qv_in, qv_received>>
    /\ UNCHANGED <<lrsVars, chunkVars, s3Vars, rdVars, ldpVars, stVars, spVars, dsVars, tdVars, insVars, ccVars, clVars>>

InitGet ==
    /\ q_backend = "none"
    /\ q_table = {}
    /\ q_params = [ascending |-> FALSE, limit |-> None, since |-> None, until |-> None]
    /\ q_cursor = [search_after |-> None, pit_id |-> None]
    /\ q_out = <<>>
    /\ q_last = <<>>
    /\ q_calls = 0
    /\ q_done = FALSE
    /\ IdleChunker
    /\ IdleS3
    /\ IdleClient
    /\ IdleCreate
    /\ IdleInsert
    /\ IdleDocs
    /\ IdleRead
    /\ IdleLDP
    /\ IdleStatus
    /\ IdleParams
    /\ IdleDispatch
    /\ qv_docs \in 0..MaxGetDocs
    /\ qv_pc = "idle"
    /\ qv_in = QvNoInput
    /\ qv_received = None
    /\ qv_io = 0
    /\ qv_out = 0
    /\ qv_ret = StNoRet

NextGet ==
    \/ Get_call
    \/ Get_next

SpecGet == InitGet /\ [][NextGet]_vars

(***************************************************************************)
(* C16: a get call validates its query argument against the backend's      *)
(* query_model when the call is made, before any backend I/O and before    *)
(* the first element is requested: a query that is not an instance of the  *)
(* model raises BackendParameterException, a missing query is replaced by  *)
(* a default model instance, and the wrapped method only ever receives a   *)
(* query_model instance.                                                   *)
(***************************************************************************)
QueryValidatedAtCall ==
    qv_pc # "idle" =>
        /\ (qv_in.query \notin {"None", query_model}) =>
               /\ qv_ret = StRaised("BackendParameterException")
               /\ qv_io = 0
               /\ qv_out = 0
        /\ (qv_in.query = "None" /\ qv_ret.kind # "raised") =>
               qv_received = Some(query_model)
        /\ qv_received \in {None, Some(query_model)}
        /\ (qv_io > 0 \/ qv_out > 0) => qv_received = Some(query_model)

(***************************************************************************)
(* StatementParameters.__post_init__ on the agent fields.  A field is      *)
(* None, the empty string or a non-empty string.                           *)
(***************************************************************************)
AgentValues == {None, Some(""), Some("a")}

AgentInputs ==
    [agent__mbox : AgentValues, agent__mbox_sha1sum : AgentValues,
     agent__openid : AgentValues, agent__account__name : AgentValues,
     agent__account__homePage : AgentValues]

HomePageAndName == "Invalid agent parameters: homePage and name are both required"
OnlyOneIdentifier == "Invalid agent parameters: Only one identifier can be used"

\* sum(x is not None for x in [...])
CountNotNone(xs) == Cardinality({i \in 1..Len(xs) : xs[i] # None})

SpRaised(msg) == [kind |-> "raised", value |-> msg, exc |-> "BackendParameterException"]

\* the checks written with truth values instead of `is not None`
post_init_truthy(p) ==
    LET set(x) == x \notin {None, Some("")}
    IN IF set(p.agent__account__name) # set(p.agent__account__homePage)
       THEN SpRaised(HomePageAndName)
       ELSE IF Cardinality({i \in 1..4 :
                   set(<<p.agent__mbox, p.agent__mbox_sha1sum, p.agent__openid,
                         p.agent__account__name>>[i])}) > 1
       THEN SpRaised(OnlyOneIdentifier)
       ELSE StReturned("StatementParameters")

post_init(p) ==
    IF (p.agent__account__name # None) # (p.agent__account__homePage # None)
    THEN SpRaised(HomePageAndName)
    ELSE IF CountNotNone(<<p.agent__mbox, p.agent__mbox_sha1sum, p.agent__openid,
                           p.agent__account__name>>) > 1
    THEN SpRaised(OnlyOneIdentifier)
    ELSE StReturned("StatementParameters")

StatementParameters_new ==
    /\ sp_pc = "idle"
    /\ sp_pc' = "done"
    /\ sp_ret' = post_init(sp_in)
    /\ UNCHANGED sp_in
    /\ UNCHANGED <<lrsVars, chunkVars, s3Vars, rdVars, ldpVars, stVars, qvVars, dsVars, tdVars, insVars, ccVars, clVars>>

InitParams ==
    /\ q_backend = "none"
    /\ q_table = {}
    /\ q_params = [ascending |-> FALSE, limit |-> None, since |-> None, until |-> None]
    /\ q_cursor = [search_after |-> None, pit_id |-> None]
    /\ q_out = <<>>
    /\ q_last = <<>>
    /\ q_calls = 0
    /\ q_done = FALSE
    /\ IdleChunker
    /\ IdleS3
    /\ IdleClient
    /\ IdleCreate
    /\ IdleInsert
    /\ IdleDocs
    /\ IdleRead
    /\ IdleLDP
    /\ IdleStatus
    /\ IdleGet
    /\ IdleDispatch
    /\ sp_pc = "idle"
    /\ sp_in \in AgentInputs
    /\ sp_ret = StNoRet

NextParams == StatementParameters_new

SpecParams == InitParams /\ [][NextParams]_vars

(***************************************************************************)
(* C17 (as stated): constructing StatementParameters succeeds if and only  *)
(* if agent__account__name is set exactly when agent__account__homePage is *)
(* set and at most one of agent__mbox, agent__mbox_sha1sum, agent__openid, *)
(* agent__account__name is set; every other combination raises             *)
(* BackendParameterException, and a set with both agent__mbox and          *)
(* agent__openid fails with the 'only one identifier can be used' message. *)
(***************************************************************************)
IsSet(x) == x # None

AccountComplete(p) == IsSet(p.agent__account__name) = IsSet(p.agent__account__homePage)

AtMostOneIdentifier(p) ==
    Cardinality({f \in {"agent__mbox", "agent__mbox_sha1sum", "agent__openid",
                        "agent__account__name"} : IsSet(p[f])}) <= 1

CrossFieldConstraintsAnyMessage ==
    sp_pc = "done" =>
        /\ sp_ret.kind = "returned" <=> (AccountComplete(sp_in) /\ AtMostOneIdentifier(sp_in))
        /\ sp_ret.kind # "returned" => sp_ret.exc = "BackendParameterException"
        /\ (IsSet(sp_in.agent__mbox) /\ IsSet(sp_in.agent__openid)) =>
               sp_ret = SpRaised(OnlyOneIdentifier)

(***************************************************************************)
(* C17 (amended): the same, except that a set with both agent__mbox and    *)
(* agent__openid fails with the 'only one identifier can be used' message  *)
(* when the account name and home page are both set or both unset, and     *)
(* with the 'homePage and name are both required' message otherwise.       *)
(***************************************************************************)
CrossFieldConstraints ==
    sp_pc = "done" =>
        /\ sp_ret.kind = "returned" <=> (AccountComplete(sp_in) /\ AtMostOneIdentifier(sp_in))
        /\ sp_ret.kind # "returned" => sp_ret.exc = "BackendParameterException"
        /\ (IsSet(sp_in.agent__mbox) /\ IsSet(sp_in.agent__openid)) =>
               sp_ret = IF AccountComplete(sp_in) THEN SpRaised(OnlyOneIdentifier)
                        ELSE SpRaised(HomePageAndName)

WitnessCrossFieldConstraints ==
    /\ sp_pc = "done"
    /\ sp_in.agent__mbox = Some("")
    /\ sp_in.agent__openid = Some("a")
    /\ sp_in.agent__account__name = None
    /\ sp_in.agent__account__homePage = None
    /\ sp_ret = SpRaised(OnlyOneIdentifier)

(***************************************************************************)
(* C18: AsyncMongoDatabase.query_statements called with both since and     *)
(* until returns only documents whose timestamp t satisfies                *)
(* since < t <= until; with only since, t > since; with only until,        *)
(* t <= until.                                                             *)
(***************************************************************************)
InTimeWindow(r, p) ==
    /\ (p.since # None => r.t > The(p.since))
    /\ (p.until # None => r.t <= The(p.until))

MongoTimeWindow ==
    (q_backend = "async_mongo" /\ q_calls > 0) =>
        \A i \in 1..Len(q_last) : InTimeWindow(q_last[i], q_params)

(***************************************************************************)
(* C19 (as stated): with rows inserted in the column store and             *)
(* query_statements called with limit = 1 and otherwise default            *)
(* parameters, feeding each returned cursor into the next call returns the *)
(* rows one per page in (emission_time, event_id) ascending order, rows    *)
(* with equal emission_time being ordered by event_id.                     *)
(***************************************************************************)
\* StatementParameters(limit=1): ascending, since and until keep their defaults
DefaultParamsLimitOne ==
    [ascending |-> FALSE, limit |-> Some(1), since |-> None, until |-> None]

TimestampBoundaryScenario ==
    /\ q_backend = "clickhouse"
    /\ q_params = DefaultParamsLimitOne

OnePerPage(order) ==
    /\ Len(q_last) <= 1
    /\ q_out = SubSeq(order, 1, Min(q_calls, Len(order)))

OnePerPageAscending ==
    TimestampBoundaryScenario => OnePerPage(SortAsc(q_table))

(***************************************************************************)
(* C19 (amended): in that scenario the rows come back one per page in      *)
(* (emission_time, event_id) descending order, the default direction: the  *)
(* latest emission_time first, rows with equal emission_time by descending *)
(* event_id.                                                               *)
(***************************************************************************)
OnePerPageDescending ==
    TimestampBoundaryScenario => OnePerPage(Reverse(SortAsc(q_table)))

\* three rows, the second and third sharing an emission_time, read in three pages
WitnessOnePerPageDescending ==
    /\ TimestampBoundaryScenario
    /\ q_calls = 3
    /\ Len(q_out) = 3
    /\ q_out[1].t > q_out[2].t
    /\ q_out[2].t = q_out[3].t
    /\ q_out[2].id > q_out[3].id

(***************************************************************************)
(* The schema catalog.  A selector is the set of (path, literal)           *)
(* constraints given to selector(...); a record carries, for each path, a  *)
(* value or nothing.                                                       *)
(***************************************************************************)
selector(filters) == filters

VirtualClassroomShapes ==
    {[name |-> "VirtualClassroomInitialized",
      __selector__ |-> selector({
           <<"verb__id", "http://adlnet.gov/expapi/verbs/initialized">>,
           <<"object__definition__type", "https://w3id.org/xapi/virtual-classroom/activity-types/virtual-classroom">>})],
     [name |-> "VirtualClassroomJoined",
      __selector__ |-> selector({
           <<"verb__id", "http://activitystrea.ms/join">>,
           <<"object__definition__type", "https://w3id.org/xapi/virtual-classroom/activity-types/virtual-classroom">>})],
     [name |-> "VirtualClassroomLeft",
      __selector__ |-> selector({
           <<"verb__id", "http://activitystrea.ms/leave">>,
           <<"object__definition__type", "https://w3id.org/xapi/virtual-classroom/activity-types/virtual-classroom">>})],
     [name |-> "VirtualClassroomTerminated",
      __selector__ |-> selector({
           <<"verb__id", "http://adlnet.gov/expapi/verbs/terminated">>,
           <<"object__definition__type", "https://w3id.org/xapi/virtual-classroom/activity-types/virtual-classroom">>})],
     [name |-> "VirtualClassroomMuted",
      __selector__ |-> selector({
           <<"verb__id", "https://w3id.org/xapi/virtual-classroom/verbs/muted">>,
           <<"object__definition__type", "https://w3id.org/xapi/virtual-classroom/activity-types/virtual-classroom">>})],
     [name |-> "VirtualClassroomUnmuted",
      __selector__ |-> selector({
           <<"verb__id", "https://w3id.org/xapi/virtual-classroom/verbs/unmuted">>,
           <<"object__definition__type", "https://w3id.org/xapi/virtual-classroom/activity-types/virtual-classroom">>})],
     [name |-> "VirtualClassroomStartedCamera",
      __selector__ |-> selector({
           <<"verb__id", "https://w3id.org/xapi/virtual-classroom/verbs/started-camera">>,
           <<"object__definition__type", "https://w3id.org/xapi/virtual-classroom/activity-types/virtual-classroom">>})],
     [name |-> "VirtualClassroomStoppedCamera",
      __selector__ |-> selector({
           <<"verb__id", "https://w3id.org/xapi/virtual-classroom/verbs/stopped-camera">>,
           <<"object__definition__type", "https://w3id.org/xapi/virtual-classroom/activity-types/virtual-classroom">>})],
     [name |-> "VirtualClassroomSharedScreen",
      __selector__ |-> selector({
           <<"verb__id", "https://w3id.org/xapi/virtual-classroom/verbs/shared-screen">>,
           <<"object__definition__type", "https://w3id.org/xapi/virtual-classroom/activity-types/virtual-classroom">>})],
     [name |-> "VirtualClassroomUnsharedScreen",
      __selector__ |-> selector({
           <<"verb__id", "https://w3id.org/xapi/virtual-classroom/verbs/unshared-screen">>,
           <<"object__definition__type", "https://w3id.org/xapi/virtual-classroom/activity-types/virtual-classroom">>})],
     [name |-> "VirtualClassroomRaisedHand",
      __selector__ |-> selector({
           <<"verb__id", "https://w3id.org/xapi/virtual-classroom/verbs/raised-hand">>,
           <<"object__definition__type", "https://w3id.org/xapi/virtual-classroom/activity-types/virtual-classroom">>})],
     [name |-> "VirtualClassroomLoweredHand",
      __selector__ |-> selector({
           <<"verb__id", "https://w3id.org/xapi/virtual-classroom/verbs/lowered-hand">>,
           <<"object__definition__type", "https://w3id.org/xapi/virtual-classroom/activity-types/virtual-classroom">>})],
     [name |-> "VirtualClassroomStartedPoll",
      __selector__ |-> selector({
           <<"verb__id", "http://adlnet.gov/expapi/verbs/asked">>,
           <<"object__definition__type", "http://adlnet.gov/expapi/activities/cmi.interaction">>})],
     [name |-> "VirtualClassroomAnsweredPoll",
      __selector__ |-> selector({
           <<"verb__id", "http://adlnet.gov/expapi/verbs/answered">>,
           <<"object__definition__type", "http://adlnet.gov/expapi/activities/cmi.interaction">>})],
     [name |-> "VirtualClassroomPostedPublicMessage",
      __selector__ |-> selector({
           <<"verb__id", "https://w3id.org/xapi/acrossx/verbs/posted">>,
           <<"object__definition__type", "https://w3id.org/xapi/acrossx/activities/message">>})]}

\* AssessmentTerminated declared on the virtual classroom activity type
AssessmentShapesClashing ==
    {[name |-> "AssessmentInitialized",
      __selector__ |-> selector({
           <<"verb__id", "http://adlnet.gov/expapi/verbs/initialized">>,
           <<"object__definition__type", "http://adlnet.gov/expapi/activities/cmi.interaction">>})],
     [name |-> "AssessmentLaunched",
      __selector__ |-> selector({
           <<"verb__id", "http://adlnet.gov/expapi/verbs/launched">>,
           <<"object__definition__type", "http://adlnet.gov/expapi/activities/cmi.interaction">>})],
     [name |-> "AssessmentCompleted",
      __selector__ |-> selector({
           <<"object__definition__type", "http://adlnet.gov/expapi/activities/cmi.interaction">>,
           <<"verb__id", "http://adlnet.gov/expapi/verbs/completed">>})],
     [name |-> "AssessmentTerminated",
      __selector__ |-> selector({
           <<"object__definition__type", "https://w3id.org/xapi/virtual-classroom/activity-types/virtual-classroom">>,
           <<"verb__id", "http://adlnet.gov/expapi/verbs/terminated">>})]}

AssessmentShapes ==
    {[name |-> "AssessmentInitialized",
      __selector__ |-> selector({
           <<"verb__id", "http://adlnet.gov/expapi/verbs/initialized">>,
           <<"object__definition__type", "http://adlnet.gov/expapi/activities/cmi.interaction">>})],
     [name |-> "AssessmentLaunched",
      __selector__ |-> selector({
           <<"verb__id", "http://adlnet.gov/expapi/verbs/launched">>,
           <<"object__definition__type", "http://adlnet.gov/expapi/activities/cmi.interaction">>})],
     [name |-> "AssessmentCompleted",
      __selector__ |-> selector({
           <<"object__definition__type", "http://adlnet.gov/expapi/activities/cmi.interaction">>,
           <<"verb__id", "http://adlnet.gov/expapi/verbs/completed">>})],
     [name |-> "AssessmentTerminated",
      __selector__ |-> selector({
           <<"object__definition__type", "http://adlnet.gov/expapi/activities/cmi.interaction">>,
           <<"verb__id", "http://adlnet.gov/expapi/verbs/terminated">>})]}

NavigationShapes ==
    {[name |-> "PageViewed",
      __selector__ |-> selector({
           <<"object__definition__type", "http://activitystrea.ms/schema/1.0/page">>,
           <<"verb__id", "http://id.tincanapi.com/verb/viewed">>})],
     [name |-> "PageTerminated",
      __selector__ |-> selector({
           <<"object__definition__type", "http://activitystrea.ms/schema/1.0/page">>,
           <<"verb__id", "http://adlnet.gov/expapi/verbs/terminated">>})]}

ORAShapes ==
    {[name |-> "ORAGetPeerSubmission",
      __selector__ |-> selector({
           <<"event_source", "server">>,
           <<"event_type", "openassessmentblock.get_peer_submission">>})],
     [name |-> "ORAGetSubmissionForStaffGrading",
      __selector__ |-> selector({
           <<"event_source", "server">>,
           <<"event_type", "openassessmentblock.get_submission_for_staff_grading">>})],
     [name |-> "ORAPeerAssess",
      __selector__ |-> selector({
           <<"event_source", "server">>,
           <<"event_type", "openassessmentblock.peer_assess">>})],
     [name |-> "ORASelfAssess",
      __selector__ |-> selector({
           <<"event_source", "server">>,
           <<"event_type", "openassessmentblock.self_assess">>})],
     [name |-> "ORAStaffAssess",
      __selector__ |-> selector({
           <<"event_source", "server">>,
           <<"event_type", "openassessmentblock.staff_assess">>})],
     [name |-> "ORASubmitFeedbackOnAssessments",
      __selector__ |-> selector({
           <<"event_source", "server">>,
           <<"event_type", "openassessmentblock.submit_feedback_on_assessments">>})],
     [name |-> "ORACreateSubmission",
      __selector__ |-> selector({
           <<"event_source", "server">>,
           <<"event_type", "openassessmentblock.create_submission">>})],
     [name |-> "ORASaveSubmission",
      __selector__ |-> selector({
           <<"event_source", "server">>,
           <<"event_type", "openassessmentblock.save_submission">>})],
     [name |-> "ORAStudentTrainingAssessExample",
      __selector__ |-> selector({
           <<"event_source", "server">>,
           <<"event_type", "openassessment.student_training_assess_example">>})],
     [name |-> "ORAUploadFile",
      __selector__ |-> selector({
           <<"event_source", "server">>,
           <<"event_type", "openassessment.upload_file">>})]}

\* one catalog per package: ralph.models.xapi and ralph.models.edx
Families == {"xapi", "edx"}

RegisteredShapes(family) ==
    IF family = "xapi"
    THEN VirtualClassroomShapes \cup AssessmentShapes \cup NavigationShapes
    ELSE ORAShapes

\* the literals the declarations use on a path, and one they do not use
Literals(path) ==
    {c[2] : c \in {d \in UNION {m.__selector__ : m \in UNION {RegisteredShapes(f) : f \in Families}} :
                       d[1] = path}}

Unregistered == "other"

RecordValues(path) == {None, Some(Unregistered)} \cup {Some(v) : v \in Literals(path)}

Records ==
    [verb__id : RecordValues("verb__id"),
     object__definition__type : RecordValues("object__definition__type"),
     event_source : RecordValues("event_source"),
     event_type : RecordValues("event_type")]

\* every constraint of the selector holds on the record
Matches(record, sel) == \A c \in sel : record[c[1]] = Some(c[2])

MatchingShapes(family, record) ==
    {m \in RegisteredShapes(family) : Matches(record, m.__selector__)}

StrictSuperset(a, b) == b \subseteq a /\ a # b

\* the matching shapes that are more specific than every other matching shape
MostSpecific(family, record) ==
    {m \in MatchingShapes(family, record) :
        \A o \in MatchingShapes(family, record) \ {m} :
            StrictSuperset(m.__selector__, o.__selector__)}

NoMatch == <<"NoMatch">>
Ambiguous == <<"Ambiguous">>

dispatch(family, record) ==
    IF MatchingShapes(family, record) = {} THEN NoMatch
    ELSE IF Cardinality(MostSpecific(family, record)) = 1
    THEN Some((CHOOSE m \in MostSpecific(family, record) : TRUE).name)
    ELSE Ambiguous

Dispatch_record ==
    /\ ds_pc = "idle"
    /\ ds_pc' = "done"
    /\ ds_ret' = dispatch(ds_family, ds_record)
    /\ UNCHANGED <<ds_family, ds_record>>
    /\ UNCHANGED <<lrsVars, chunkVars, s3Vars, rdVars, ldpVars, stVars, qvVars, spVars, tdVars, insVars, ccVars, clVars>>

InitDispatch ==
    /\ q_backend = "none"
    /\ q_table = {}
    /\ q_params = [ascending |-> FALSE, limit |-> None, since |-> None, until |-> None]
    /\ q_cursor = [search_after |-> None, pit_id |-> None]
    /\ q_out = <<>>
    /\ q_last = <<>>
    /\ q_calls = 0
    /\ q_done = FALSE
    /\ IdleChunker
    /\ IdleS3
    /\ IdleClient
    /\ IdleCreate
    /\ IdleInsert
    /\ IdleDocs
    /\ IdleRead
    /\ IdleLDP
    /\ IdleStatus
    /\ IdleGet
    /\ IdleParams
    /\ ds_family \in Families
    /\ ds_pc = "idle"
    /\ ds_record \in Records
    /\ ds_ret = None

NextDispatch == Dispatch_record

SpecDispatch == InitDispatch /\ [][NextDispatch]_vars

(***************************************************************************)
(* C20: among the registered statement shapes, any two distinct shapes     *)
(* whose selectors can both be satisfied by one record have selector       *)
(* constraint sets ordered by strict inclusion; no two registered shapes   *)
(* declare the same selector; so for every record that matches a shape the *)
(* set of matching shapes has a unique most specific element, which        *)
(* dispatch returns, and dispatch never yields Ambiguous.                  *)
(***************************************************************************)
\* one record can satisfy both selectors: they agree on every shared path
Compatible(a, b) == \A c \in a, d \in b : c[1] = d[1] => c[2] = d[2]

SelectorForest ==
    \A f \in Families : \A a, b \in RegisteredShapes(f) :
        (a # b /\ Compatible(a.__selector__, b.__selector__)) =>
            \/ StrictSuperset(a.__selector__, b.__selector__)
            \/ StrictSuperset(b.__selector__, a.__selector__)

DistinctSelectors ==
    \A f \in Families : \A a, b \in RegisteredShapes(f) : a.name # b.name => a.__selector__ # b.__selector__

isoformat_micros(t) == [sec |-> t \div MicrosPerSecond, frac |-> <<t % MicrosPerSecond>>]

CursorOfLastRow(fmt(_)) ==
    /\ q_last = <<>> => q_cursor = [search_after |-> None, pit_id |-> None]
    /\ q_last # <<>> =>
          /\ q_cursor.search_after = Some(fmt(q_last[Len(q_last)].t))
          /\ q_cursor.pit_id = Some(UuidStr(q_last[Len(q_last)].id))

CursorEmissionWithMicros ==
    (q_backend = "clickhouse" /\ q_calls > 0) =>
        /\ q_params.limit # None => Len(q_last) <= The(q_params.limit)
        /\ CursorOfLastRow(isoformat_micros)

(***************************************************************************)
(* C21 (amended): query_statements returns at most limit statements when   *)
(* limit is 1 or more (None and 0 put no bound on the page); an empty page *)
(* gives a null search_after and pit_id; otherwise search_after is         *)
(* isoformat() of the last returned row's emission_time, which prints the  *)
(* microseconds only when they are not zero, and pit_id is that row's      *)
(* event_id as a UUID string.                                              *)
(***************************************************************************)
CursorEmission ==
    (q_backend = "clickhouse" /\ q_calls > 0) =>
        /\ (q_params.limit # None /\ The(q_params.limit) >= 1) =>
               Len(q_last) <= The(q_params.limit)
        /\ CursorOfLastRow(isoformat)

\* a full page of two rows whose last row lies on a whole second
WitnessCursorEmission ==
    /\ q_backend = "clickhouse"
    /\ q_params.limit = Some(2)
    /\ Len(q_last) = 2
    /\ q_last[1] # q_last[2]
    /\ q_last[2].t % MicrosPerSecond = 0
    /\ q_cursor.search_after = Some(isoformat(q_last[2].t))
    /\ isoformat(q_last[2].t).frac = <<>>

(***************************************************************************)
(* ClickHouseDataBackend.to_documents, one statement per step.  A field of *)
(* a statement is absent, a string that does not parse, or a value that    *)
(* does; an id may also be the empty string.                               *)
(***************************************************************************)
\* strings that are no UUID, by length: the empty string and a non-empty one
EmptyString == <<"str", 0>>
NotAUuid == <<"str", 1>>
\* a text that is no ISO-8601 date
NotATimestamp == [sec |-> -1, frac |-> <<>>]

DocIds == {None, Some(EmptyString), Some(NotAUuid)} \cup {Some(UuidStr(n)) : n \in StatementIds}
DocTimestamps == {None, Some(NotATimestamp), Some(isoformat(0))}
DocStatements == [id : DocIds, timestamp : DocTimestamps]

ToDocumentsInputs ==
    [data : SeqsUpTo(DocStatements, MaxDocs), ignore_errors : BOOLEAN,
     operation_type : {"CREATE", "INDEX"}]

\* pydantic's UUID and datetime validation in ClickHouseInsert
ParsesAsUUID(x) == x[1] = "uuid"
ParsesAsDatetime(x) == x.sec >= 0

\* "timestamp" not in statement or (CREATE and not statement.get("id", ""))
MissingField(statement, operation_type) ==
    \/ statement.timestamp = None
    \/ (operation_type = "CREATE" /\ statement.id \in {None, Some(EmptyString)})

\* ClickHouseInsert(event_id=statement.get("id", str(uuid4())), ...) raises
ValidationError(statement) ==
    \/ (statement.id # None /\ ~ParsesAsUUID(The(statement.id)))
    \/ ~ParsesAsDatetime(The(statement.timestamp))

\* the check on a missing id left out
BadStatementNoIdCheck(statement, operation_type) ==
    statement.timestamp = None \/ ValidationError(statement)

BadStatement(statement, operation_type) ==
    MissingField(statement, operation_type) \/ ValidationError(statement)

\* the insert tuple; uuid4 is the id drawn when the statement has none
Document(statement, uuid4) ==
    [event_id |-> IF statement.id = None THEN uuid4 ELSE UUID(The(statement.id)),
     emission_time |-> DateTime64(The(statement.timestamp)),
     statement |-> statement]

to_documents_begin ==
    /\ td_pc = "idle"
    /\ td_pc' = "running"
    /\ UNCHANGED <<td_in, td_pos, td_out, td_warnings>>
    /\ UNCHANGED <<lrsVars, chunkVars, s3Vars, rdVars, ldpVars, stVars, qvVars, spVars, dsVars, insVars, ccVars, clVars>>

to_documents_next ==
    /\ td_pc = "running"
    /\ IF td_pos = Len(td_in.data)
       THEN /\ td_pc' = "done"
            /\ UNCHANGED <<td_pos, td_out, td_warnings>>
       ELSE LET statement == td_in.data[td_pos + 1]
            IN /\ td_pos' = td_pos + 1
               /\ IF BadStatement(statement, td_in.operation_type)
                  THEN IF td_in.ignore_errors
                       THEN /\ td_warnings' = td_warnings + 1
                            /\ UNCHANGED <<td_pc, td_out>>
                       ELSE /\ td_pc' = "raised"
                            /\ UNCHANGED <<td_out, td_warnings>>
                  ELSE /\ \E uuid4 \in StatementIds :
                              td_out' = Append(td_out, Document(statement, uuid4))
                       /\ UNCHANGED <<td_pc, td_warnings>>
    /\ UNCHANGED td_in
    /\ UNCHANGED <<lrsVars, chunkVars, s3Vars, rdVars, ldpVars, stVars, qvVars, spVars, dsVars, insVars, ccVars, clVars>>

InitDocs ==
    /\ q_backend = "none"
    /\ q_table = {}
    /\ q_params = [ascending |-> FALSE, limit |-> None, since |-> None, until |-> None]
    /\ q_cursor = [search_after |-> None, pit_id |-> None]
    /\ q_out = <<>>
    /\ q_last = <<>>
    /\ q_calls = 0
    /\ q_done = FALSE
    /\ IdleChunker
    /\ IdleS3
    /\ IdleClient
    /\ IdleCreate
    /\ IdleInsert
    /\ IdleRead
    /\ IdleLDP
    /\ IdleStatus
    /\ IdleGet
    /\ IdleParams
    /\ IdleDispatch
    /\ td_pc = "idle"
    /\ td_in \in ToDocumentsInputs
    /\ td_pos = 0
    /\ td_out = <<>>
    /\ td_warnings = 0

NextDocs == to_documents_begin \/ to_documents_next

SpecDocs == InitDocs /\ [][NextDocs]_vars

(***************************************************************************)
(* C22 (as stated): to_documents yields, in input order, one tuple per     *)
(* statement that has a timestamp that parses and (under CREATE) a         *)
(* non-empty id that parses as a UUID; on any other statement it raises    *)
(* BadFormatException when ignore_errors is false, after having yielded    *)
(* the tuples of all earlier valid statements, and skips it with one       *)
(* warning and continues when ignore_errors is true.                       *)
(***************************************************************************)
TimestampParses(st) == st.timestamp # None /\ ParsesAsDatetime(The(st.timestamp))
IdParses(st) == st.id # None /\ ParsesAsUUID(The(st.id))

GoodAsStated(st, op) == TimestampParses(st) /\ (op = "CREATE" => IdParses(st))

\* under another operation type a statement without id is good; an id that
\* is present must parse under every operation type
GoodAmended(st, op) ==
    TimestampParses(st) /\ (IdParses(st) \/ (op # "CREATE" /\ st.id = None))

\* the statements among the first n of data that are good, in input order
RECURSIVE GoodPrefix(_, _, _, _)
GoodPrefix(Good(_, _), data, op, n) ==
    IF n = 0 THEN <<>>
    ELSE LET rest == GoodPrefix(Good, data, op, n - 1)
         IN IF Good(data[n], op) THEN Append(rest, data[n]) ELSE rest

SkipsOrRaises(Good(_, _)) ==
    LET data == td_in.data
        op == td_in.operation_type
        good == GoodPrefix(Good, data, op, td_pos)
        bad == td_pos - Len(good)
    IN /\ Len(td_out) = Len(good)
       /\ \A i \in 1..Len(good) : td_out[i].statement = good[i]
       /\ td_in.ignore_errors =>
             /\ td_pc # "raised"
             /\ td_warnings = bad
             /\ td_pc = "done" => td_pos = Len(data)
       /\ ~td_in.ignore_errors =>
             /\ td_warnings = 0
             /\ td_pc = "raised" <=> bad > 0
             /\ td_pc = "raised" => (bad = 1 /\ ~Good(data[td_pos], op))

TupleConstructionAsStated == SkipsOrRaises(GoodAsStated)

(***************************************************************************)
(* C22 (amended): the same, where the statements that give a tuple are     *)
(* those with a timestamp that parses and an id that parses as a UUID,     *)
(* or, under an operation type other than CREATE, no id at all (an id is   *)
(* then generated); an id that is present but empty or not a UUID makes    *)
(* the statement bad under every operation type.                           *)
(***************************************************************************)
TupleConstruction == SkipsOrRaises(GoodAmended)

\* CREATE, ignore_errors: a statement without id between two good ones is
\* skipped with one warning and the generator runs to its end
WitnessTupleConstruction ==
    /\ td_pc = "done"
    /\ td_in.ignore_errors
    /\ td_in.operation_type = "CREATE"
    /\ Len(td_in.data) = 2
    /\ td_in.data[1].id = None
    /\ td_in.data[1].timestamp = Some(isoformat(0))
    /\ Len(td_out) = 1
    /\ td_out[1].statement = td_in.data[2]
    /\ td_warnings = 1

(***************************************************************************)
(* C23: write/put flushes batches one after another in input order; every  *)
(* flushed batch except possibly the last holds exactly chunk_size tuples, *)
(* the last holds between 1 and chunk_size, no empty batch is ever         *)
(* flushed, and the concatenation of the flushed batches equals the        *)
(* sequence of tuples produced from the input.                             *)
(***************************************************************************)
\* the tuples to_documents produces from the first n statements of data
RECURSIVE TuplesOf(_, _)
TuplesOf(data, n) ==
    IF n = 0 THEN <<>>
    ELSE IF data[n].valid THEN Append(TuplesOf(data, n - 1), data[n].id)
    ELSE TuplesOf(data, n - 1)

FlushedBatches == [i \in 1..Len(w_flushed) |-> w_flushed[i].batch]

ChunkStructure ==
    backend \in {"clickhouse", "async_mongo"} =>
        LET chunk_size == EffectiveChunk(w_in)
            n == Len(w_flushed)
        IN /\ \A i \in 1..n :
                 /\ Len(FlushedBatches[i]) >= 1
                 /\ Len(FlushedBatches[i]) <= chunk_size
                 /\ i < n => Len(FlushedBatches[i]) = chunk_size
           /\ IsPrefix(Concat(w_flushed), TuplesOf(w_in.data, w_pos))
           /\ (pc = "done" /\ w_ret.kind = "returned") =>
                 Concat(w_flushed) = TuplesOf(w_in.data, Len(w_in.data))

\* three tuples with chunk_size 2: a full batch, then a last batch of one
WitnessChunkStructure ==
    /\ backend = "clickhouse"
    /\ pc = "done"
    /\ w_ret.kind = "returned"
    /\ w_in.chunk_size = Some(2)
    /\ Len(w_flushed) = 2
    /\ Len(w_flushed[1].batch) = 2
    /\ Len(w_flushed[2].batch) = 1

(***************************************************************************)
(* C24: LDPDataBackend.read(query=A, target=T) downloads the content of    *)
(* archive A of stream T (not of the default stream) and, once consumed,   *)
(* records a history entry whose id is 'T/A'; with no target the default   *)
(* stream is used for both.                                                *)
(***************************************************************************)
ReadHonoursTarget ==
    (backend = "ldp" /\ ldp_pc = "done" /\ ldp_in.call = "read"
     /\ ldp_ret.kind = "returned") =>
        LET T == LDPTarget(ldp_in)
            A == The(ldp_in.query)
        IN /\ \A i \in 1..Len(ldp_out) : ldp_out[i][1] = T /\ ldp_out[i][2] = A
           /\ ldp_history = Append(ldp_pre, [action |-> "read", id |-> <<T, A>>])

(***************************************************************************)
(* C25: with ignore_errors = true, an S3DataBackend.read whose object      *)
(* download fails and a write whose upload fails complete without raising  *)
(* any exception (the read yields nothing) and append no history entry.    *)
(***************************************************************************)
\* the step in which get_object fails: a read with a query that ends at once
FailedDownload ==
    /\ s3_pc = "idle"
    /\ s3_pc' = "done"
    /\ s3_in'.call = "read"
    /\ s3_in'.query # None

\* the step in which put_object or head_object fails: the upload ends
\* without its history entry
FailedUpload ==
    /\ s3_pc = "put"
    /\ s3_pc' = "done"
    /\ s3_history' = s3_history

IgnoreErrorsIsolatesFailures ==
    [][(backend = "s3" /\ (FailedDownload \/ FailedUpload) /\ s3_in'.ignore_errors) =>
          /\ s3_ret'.kind = "returned"
          /\ s3_out' = <<>>
          /\ s3_history' = s3_history]_vars

(***************************************************************************)
(* Pagination while other clients insert: an INSERT into the event table   *)
(* may land between two query_statements calls of a cursor chain.  Rows    *)
(* are never deleted or modified.                                          *)
(***************************************************************************)
CH_concurrent_insert ==
    /\ q_backend = "clickhouse"
    /\ ~q_done
    /\ q_calls >= 1
    /\ Cardinality(q_table) < MaxRows
    /\ \E r \in Rows \ q_table : q_table' = q_table \cup {r}
    /\ UNCHANGED <<q_backend, q_params, q_cursor, q_out, q_last, q_calls, q_done>>
    /\ UNCHANGED <<chunkVars, s3Vars, moreVars>>

InitInsert ==
    /\ q_backend = "clickhouse"
    /\ q_table \in {T \in Tables : Cardinality(T) <= MaxRowsBefore}
    /\ q_params \in Params
    /\ q_cursor = [search_after |-> None, pit_id |-> None]
    /\ q_out = <<>>
    /\ q_last = <<>>
    /\ q_calls = 0
    /\ q_done = FALSE
    /\ IdleChunker
    /\ IdleS3
    /\ IdleClient
    /\ IdleCreate
    /\ IdleRead
    /\ IdleLDP
    /\ IdleStatus
    /\ IdleGet
    /\ IdleParams
    /\ IdleDispatch
    /\ IdleDocs
    /\ q_before = q_table

NextInsert ==
    \/ CH_query_statements
    \/ CH_concurrent_insert

SpecInsert == InitInsert /\ [][NextInsert]_vars

(***************************************************************************)
(* C26: when rows are inserted between the calls of a cursor chain, no     *)
(* statement is returned twice across the pages, and once the chain has    *)
(* ended every matching row that was present before the first call has     *)
(* been returned.                                                          *)
(***************************************************************************)
PaginationUnderInserts ==
    /\ \A i, j \in 1..Len(q_out) : q_out[i] = q_out[j] => i = j
    /\ q_done =>
          \A r \in q_before : CHWhereParams(r, q_params) => r \in Range(q_out)

\* a chain of at least two non-empty pages has ended, a row was inserted
\* behind the cursor after the first page and was never returned
WitnessPaginationUnderInserts ==
    /\ q_done
    /\ q_calls >= 3
    /\ \E r \in q_table \ q_before : CHWhereParams(r, q_params) /\ r \notin Range(q_out)
    /\ \E r \in q_before : CHWhereParams(r, q_params)

(***************************************************************************)
(* C27: over an unchanging table of N matching rows and with limit >= 1,   *)
(* a cursor chain of ClickHouseLRSBackend.query_statements calls receives  *)
(* the empty page with a null cursor after at most ceil(N / limit) + 1     *)
(* calls, and each non-empty page moves the cursor strictly forward in the *)
(* sort order.                                                             *)
(***************************************************************************)
MatchingRows == {r \in q_table : CHWhereParams(r, q_params)}

CeilDiv(n, d) == (n + d - 1) \div d

NullCursor == [search_after |-> None, pit_id |-> None]

\* the row key a cursor stands for, as the next query binds it
CursorKey(c) == [t |-> DateTime64(The(c.search_after)), id |-> UUID(The(c.pit_id))]

LimitAtLeastOne == q_params.limit # None /\ The(q_params.limit) >= 1

CallBound == CeilDiv(Cardinality(MatchingRows), The(q_params.limit)) + 1

CursorMovesForward ==
    (q_cursor # NullCursor /\ q_cursor' # NullCursor /\ q_cursor' # q_cursor) =>
        IF q_params.ascending
        THEN KeyLess(CursorKey(q_cursor), CursorKey(q_cursor'))
        ELSE KeyLess(CursorKey(q_cursor'), CursorKey(q_cursor))

PaginationTerminates ==
    /\ []((q_backend = "clickhouse" /\ LimitAtLeastOne) =>
             /\ q_calls <= CallBound
             /\ (q_calls = CallBound => q_done)
             /\ (q_done => q_last = <<>> /\ q_cursor = NullCursor))
    /\ [][(q_backend = "clickhouse" /\ LimitAtLeastOne /\ q_calls' = q_calls + 1) =>
             /\ (q_last' # <<>> => q_cursor' # NullCursor /\ q_cursor' # q_cursor)
             /\ CursorMovesForward]_vars

\* a chain over three matching rows ended at its bound after full pages
WitnessPaginationTerminates ==
    /\ q_backend = "clickhouse"
    /\ LimitAtLeastOne
    /\ q_done
    /\ Cardinality(MatchingRows) = 3
    /\ q_calls = CallBound
    /\ q_calls >= 3

(***************************************************************************)
(* C28: after a ClickHouseDataBackend.write returns, no two rows persisted *)
(* by that call share the same event_id, for every chunk_size: two input   *)
(* records with the same id are rejected whether or not they fall into the *)
(* same chunk.                                                             *)
(***************************************************************************)
InsertedWhole(f) == ~f.failed

\* the event_ids of the batches client.insert accepted, in insertion order
PersistedIds == Concat(SelectSeq(w_flushed, InsertedWhole))

NoDuplicateIdsAcrossChunks ==
    (backend = "clickhouse" /\ pc = "done" /\ w_ret.kind = "returned") =>
        \A i, j \in 1..Len(PersistedIds) : PersistedIds[i] = PersistedIds[j] => i = j

(***************************************************************************)
(* Two callers of S3DataBackend.write with operation type CREATE or INDEX  *)
(* on the same key of the same bucket, each with data of one chunk.  The   *)
(* listing, put_object and head_object are separate requests, so the       *)
(* callers' steps interleave.                                              *)
(***************************************************************************)
CcInputs == [operation_type : {"CREATE", "INDEX"}, ignore_errors : BOOLEAN]

\* target_object in list(self.list(target=target_bucket))
CC_write_begin(c) ==
    /\ cc_pc[c] = "idle"
    /\ \E listed \in BOOLEAN :
        IF ~listed
        THEN /\ cc_pc' = [cc_pc EXCEPT ![c] = "done"]
             /\ cc_ret' = [cc_ret EXCEPT ![c] = Raised("BackendException", None)]
             /\ UNCHANGED cc_saw
        ELSE /\ cc_saw' = [cc_saw EXCEPT ![c] = IF cc_store = None THEN "absent" ELSE "present"]
             /\ IF cc_store # None /\ ~cc_in[c].ignore_errors
                THEN /\ cc_pc' = [cc_pc EXCEPT ![c] = "done"]
                     /\ cc_ret' = [cc_ret EXCEPT ![c] = Raised("BackendException", None)]
                ELSE /\ cc_pc' = [cc_pc EXCEPT ![c] = "put"]
                     /\ UNCHANGED cc_ret
    /\ UNCHANGED <<cc_store, cc_in>>
    /\ UNCHANGED <<lrsVars, chunkVars, s3Vars, rdVars, ldpVars, stVars, qvVars, spVars, dsVars, tdVars, insVars, clVars>>

CcUploadFailed(c) ==
    /\ cc_pc' = [cc_pc EXCEPT ![c] = "done"]
    /\ cc_ret' = [cc_ret EXCEPT ![c] =
                    IF cc_in[c].ignore_errors THEN Raised("UnboundLocalError", None)
                    ELSE Raised("BackendException", None)]

\* writer(target_bucket, target_object, chunk): put_object replaces the object
CC_write_put(c) ==
    /\ cc_pc[c] = "put"
    /\ \E uploaded \in BOOLEAN :
        IF uploaded
        THEN /\ cc_store' = Some(c)
             /\ cc_pc' = [cc_pc EXCEPT ![c] = "head"]
             /\ UNCHANGED cc_ret
        ELSE /\ CcUploadFailed(c)
             /\ UNCHANGED cc_store
    /\ UNCHANGED <<cc_in, cc_saw>>
    /\ UNCHANGED <<lrsVars, chunkVars, s3Vars, rdVars, ldpVars, stVars, qvVars, spVars, dsVars, tdVars, insVars, clVars>>

\* head_object, the history entry and the return
CC_write_head(c) ==
    /\ cc_pc[c] = "head"
    /\ \E found \in BOOLEAN :
        IF found
        THEN /\ cc_pc' = [cc_pc EXCEPT ![c] = "done"]
             /\ cc_ret' = [cc_ret EXCEPT ![c] = Returned(1)]
        ELSE CcUploadFailed(c)
    /\ UNCHANGED <<cc_store, cc_in, cc_saw>>
    /\ UNCHANGED <<lrsVars, chunkVars, s3Vars, rdVars, ldpVars, stVars, qvVars, spVars, dsVars, tdVars, insVars, clVars>>

InitCreate ==
    /\ q_backend = "none"
    /\ q_table = {}
    /\ q_params = [ascending |-> FALSE, limit |-> None, since |-> None, until |-> None]
    /\ q_cursor = [search_after |-> None, pit_id |-> None]
    /\ q_out = <<>>
    /\ q_last = <<>>
    /\ q_calls = 0
    /\ q_done = FALSE
    /\ IdleChunker
    /\ IdleS3
    /\ IdleClient
    /\ IdleRead
    /\ IdleLDP
    /\ IdleStatus
    /\ IdleGet
    /\ IdleParams
    /\ IdleDispatch
    /\ IdleDocs
    /\ IdleInsert
    /\ cc_store = None
    /\ cc_in \in [Callers -> CcInputs]
    /\ cc_pc = [c \in Callers |-> "idle"]
    /\ cc_saw = [c \in Callers |-> "none"]
    /\ cc_ret = [c \in Callers |-> NoRet]

NextCreate ==
    \E c \in Callers :
        \/ CC_write_begin(c)
        \/ CC_write_put(c)
        \/ CC_write_head(c)

SpecCreate == InitCreate /\ [][NextCreate]_vars

(***************************************************************************)
(* C29: when two callers concurrently issue CREATE (or INDEX) writes to    *)
(* the same key, absent when both start, at most one of the writes         *)
(* succeeds and the object stored by the successful one is never           *)
(* overwritten by the other, under every interleaving of their existence   *)
(* check and upload steps.                                                 *)
(***************************************************************************)
AtMostOneCreateSucceeds ==
    (\A c \in Callers : cc_saw[c] = "absent") =>
        /\ Cardinality({c \in Callers : cc_ret[c].kind = "returned"}) <= 1
        /\ \A c \in Callers : cc_ret[c].kind = "returned" => cc_store = Some(c)

(***************************************************************************)
(* The client of a ClickHouseDataBackend instance.  Statements name their  *)
(* table without a database, so they run in client.database.               *)
(***************************************************************************)
DATABASE == "xapi"
OtherDatabase == "other"
ListTargets == {None, Some(DATABASE), Some(OtherDatabase)}

\* the client property: created on first use, connected to self.database
client(c) == IF c = None THEN Some(DATABASE) ELSE c

ClientCall(call, target, c) ==
    [call |-> call, target |-> target, database |-> The(c)]

\* list: self.client.database = target if target else self.database
CL_list ==
    /\ Len(cl_log) < MaxClientCalls
    /\ \E target \in ListTargets :
         LET c == IF target # None THEN target ELSE Some(DATABASE)
         IN /\ cl_client' = c
            /\ cl_log' = Append(cl_log, ClientCall("list", target, c))
    /\ UNCHANGED <<lrsVars, chunkVars, s3Vars, rdVars, ldpVars, stVars, qvVars, spVars, dsVars, tdVars, insVars, ccVars>>

\* read: self.client.query("SELECT ... FROM <table>")
CL_read ==
    /\ Len(cl_log) < MaxClientCalls
    /\ cl_client' = client(cl_client)
    /\ cl_log' = Append(cl_log, ClientCall("read", None, client(cl_client)))
    /\ UNCHANGED <<lrsVars, chunkVars, s3Vars, rdVars, ldpVars, stVars, qvVars, spVars, dsVars, tdVars, insVars, ccVars>>

\* write: bulk_import calls self.client.insert(event_table_name, batch)
CL_write ==
    /\ Len(cl_log) < MaxClientCalls
    /\ cl_client' = client(cl_client)
    /\ cl_log' = Append(cl_log, ClientCall("write", None, client(cl_client)))
    /\ UNCHANGED <<lrsVars, chunkVars, s3Vars, rdVars, ldpVars, stVars, qvVars, spVars, dsVars, tdVars, insVars, ccVars>>

\* query_statements: _find calls self.client.query(sql, parameters)
CL_query_statements ==
    /\ Len(cl_log) < MaxClientCalls
    /\ cl_client' = client(cl_client)
    /\ cl_log' = Append(cl_log, ClientCall("query_statements", None, client(cl_client)))
    /\ UNCHANGED <<lrsVars, chunkVars, s3Vars, rdVars, ldpVars, stVars, qvVars, spVars, dsVars, tdVars, insVars, ccVars>>

InitClient ==
    /\ q_backend = "none"
    /\ q_table = {}
    /\ q_params = [ascending |-> FALSE, limit |-> None, since |-> None, until |-> None]
    /\ q_cursor = [search_after |-> None, pit_id |-> None]
    /\ q_out = <<>>
    /\ q_last = <<>>
    /\ q_calls = 0
    /\ q_done = FALSE
    /\ IdleChunker
    /\ IdleS3
    /\ IdleMore

NextClient ==
    \/ CL_list
    \/ CL_read
    \/ CL_write
    \/ CL_query_statements

SpecClient == InitClient /\ [][NextClient]_vars

(***************************************************************************)
(* C30: after ClickHouseDataBackend.list(target=X) has been iterated, with *)
(* X different from the configured database, later read, write and         *)
(* query_statements calls on the same backend instance still operate on    *)
(* the configured database.                                                *)
(***************************************************************************)
ListLeavesDatabaseUnchanged ==
    \A i \in 1..Len(cl_log) :
        cl_log[i].call \in {"read", "write", "query_statements"} =>
            cl_log[i].database = DATABASE

====
